---- MODULE Spec2Model ----
(***************************************************************************)
(* The BFT finality engine (package bft, BFTEngine) over a block           *)
(* repository holding competing branches.  Block ids are <<number,         *)
(* branch>> pairs, so that block.Number(id) is id[1] as in the source,     *)
(* where the number is the first four bytes of the id.                     *)
(***************************************************************************)
EXTENDS Integers, Sequences, FiniteSets, TLC

VARIABLES
    blocks,       \* engine.repo: block id -> header [parent, signer, vote]
    finality,     \* forkConfig.FINALITY
    mbpParam,     \* the max-block-proposers parameter held by the state store
    finalized,    \* engine.finalized (atomic.Value)
    data,         \* engine.data (kv.Store): [finalized, quality]
    caches,       \* engine.caches: [state, quality, mbp, justifier]
    casts,        \* engine.casts: [init, list]
    disturbed,    \* a disturbance (an injected I/O failure or a cache eviction) has
                  \* happened: a behaviour holds at most one
    ret,          \* outcome of the last call: [op, id, fail, err, val]
    tally,        \* a justifier under test: [js, pool, fed]
    waiters,      \* co.Signal.waiters: one buffered channel per waiter
    sig,          \* the co.Signal holding a single channel: [ch, chans, refs]
    cons,         \* a bft.Consensus and its repository: [repo, best, state, rtpc,
                  \* expired, lastSigned, prevBest, updated]
    node,         \* Node.packerLoop: [flow, best, now, flows, packed]
    adopt,        \* a run of Node.packTxSetAndBlockSummary: [txs, i, timer, gasUsed,
                  \* adopted, reached, pc]
    solo,         \* a tick iteration of Solo.loop: [pc, i, eds, edCh, done, gs]
    opt           \* Optimizer.loop: [pc, status, target, base, limit, calls, err]

vars == <<blocks, finality, mbpParam, finalized, data, caches, casts,
          disturbed, ret, tally, waiters, sig, cons, node, adopt, solo, opt>>

\* The components a specification of the finality engine leaves alone.
others == <<cons, node, adopt, solo, opt>>

\* No bft.Consensus has been constructed.
NoConsensus == [repo |-> <<>>]

\* No packer loop, no packing run, no Solo and no optimizer has been started.
NoNode == [idle |-> TRUE]
NoAdoption == [idle |-> TRUE]
NoSolo == [idle |-> TRUE]
NoOptimizer == [idle |-> TRUE]

OthersIdle ==
    /\ cons = NoConsensus
    /\ node = NoNode
    /\ adopt = NoAdoption
    /\ solo = NoSolo
    /\ opt = NoOptimizer

\* ------------------------------------------------------------------ bounds

\* thor.CheckpointInterval, scaled down (the specification's scenarios use 2).
CheckpointInterval == 2

\* thor.InitialMaxBlockProposers, scaled down.
InitialMaxBlockProposers == 2

\* Highest block number the repository may hold.
MaxNumber == 7

\* Largest number of entries the casts ledger may hold.
MaxCasts == 2

Signers == {"s1", "s2"}

\* engine.master: the signer of the blocks the local node packs.
Master == "s1"
Branches == {0, 1}

COM == "COM"
WIT == "WIT"
NoVote == "nil"

\* ------------------------------------------------------------ repository

GenesisID == <<0, 0>>
NoID == <<0 - 1, 0>>

Number(id) == id[1]

Ids == (0..MaxNumber) \X Branches

\* chain.Chain.GetBlockID: the id at number n on the branch of repo ending at
\* tip (NoID stands for the not-found error).
RECURSIVE GetBlockID(_, _, _)
GetBlockID(repo, tip, n) ==
    IF n < 0 \/ n > Number(tip) THEN NoID
    ELSE IF Number(tip) = n THEN tip
    ELSE GetBlockID(repo, repo[tip].parent, n)

\* chain.Chain.HasBlock: id is on the branch ending at tip.
HasBlock(repo, tip, id) == GetBlockID(repo, tip, Number(id)) = id

\* ------------------------------------------------- checkpoint arithmetic

getCheckPoint(blockNum) == (blockNum \div CheckpointInterval) * CheckpointInterval

isCheckPoint(blockNum) == getCheckPoint(blockNum) = blockNum

\* getStorePoint naming the first block of the round.
getStorePointFirst(blockNum) == getCheckPoint(blockNum)

getStorePoint(blockNum) == getCheckPoint(blockNum) + CheckpointInterval - 1

\* ------------------------------------------------------------- justifier

ZeroState == [Quality |-> 0, Justified |-> FALSE, CommitAt |-> NoID]

\* threshold = ceil(2 * mbp / 3) + 1
Threshold(mbp) == ((2 * mbp + 2) \div 3) + 1

\* justifier.AddBlock counting a vote for every block.
AddBlockCountingBlocks(js, id, signer, vote) ==
    IF id \in js.seen THEN js
    ELSE LET voters == js.voters \cup {id}
             comVoters == IF vote = COM THEN js.comVoters \cup {id}
                          ELSE js.comVoters
         IN [js EXCEPT !.seen = @ \cup {id},
                       !.voters = voters,
                       !.comVoters = comVoters,
                       !.commitAt =
                           IF @ = NoID /\ Cardinality(comVoters) >= js.threshold
                                       /\ Cardinality(voters) >= js.threshold
                           THEN id ELSE @]

\* justifier.AddBlock: duplicates (same id) are ignored; a signer is counted
\* once; the commit point is the block at which the COM voters first reach
\* the threshold.
AddBlock(js, id, signer, vote) ==
    IF id \in js.seen THEN js
    ELSE LET voters == js.voters \cup {signer}
             comVoters == IF vote = COM THEN js.comVoters \cup {signer}
                          ELSE js.comVoters
         IN [js EXCEPT !.seen = @ \cup {id},
                       !.voters = voters,
                       !.comVoters = comVoters,
                       !.commitAt =
                           IF @ = NoID /\ Cardinality(comVoters) >= js.threshold
                                       /\ Cardinality(voters) >= js.threshold
                           THEN id ELSE @]

isCommitted(js) == js.commitAt # NoID

\* justifier.Summarize with a committed round counting twice.
SummarizeSkipping(js) ==
    LET justified == Cardinality(js.voters) >= js.threshold
    IN [Quality |-> IF justified
                    THEN js.parentQuality + (IF js.commitAt # NoID THEN 2 ELSE 1)
                    ELSE js.parentQuality,
        Justified |-> justified,
        CommitAt |-> js.commitAt]

\* justifier.Summarize with the quality of an unjustified round reset.
SummarizeRound(js) ==
    LET justified == Cardinality(js.voters) >= js.threshold
    IN [Quality |-> IF justified THEN js.parentQuality + 1 ELSE 0,
        Justified |-> justified,
        CommitAt |-> js.commitAt]

\* justifier.Summarize
Summarize(js) ==
    LET justified == Cardinality(js.voters) >= js.threshold
    IN [Quality |-> IF justified THEN js.parentQuality + 1 ELSE js.parentQuality,
        Justified |-> justified,
        CommitAt |-> js.commitAt]

\* ------------------------------------------------- engine: pure helpers
\* The helpers below take the engine e = [repo, finalized, data, caches, casts]
\* and return it with the mutations the code performs, together with the
\* result and the error ("nil" when there is none).

nil == "nil"

\* The element of a one-element set: Only({F(x) : x \in {v}}) is F(v), with v
\* evaluated once.
Only(S) == CHOOSE x \in S : TRUE

Put(f, k, v) == [x \in DOMAIN f \cup {k} |-> IF x = k THEN v ELSE f[x]]

Drop(f, k) == [x \in DOMAIN f \ {k} |-> f[x]]

\* BFTEngine.getQuality, over loadQuality: the LRU first, then the store;
\* the LRU gains the entry only when the load succeeded.
getQuality(e, id) ==
    IF id \in DOMAIN e.caches.quality
    THEN [quality |-> e.caches.quality[id], e |-> e, err |-> nil]
    ELSE IF id \in DOMAIN e.data.quality
    THEN [quality |-> e.data.quality[id],
          e |-> [e EXCEPT !.caches.quality = Put(@, id, e.data.quality[id])],
          err |-> nil]
    ELSE [quality |-> 0, e |-> e, err |-> "quality not found"]

\* 2^64, scaled down: the number of values of a uint64.
Uint64Values == 8

\* big.Int.Uint64: the low 64 bits of the magnitude.
Uint64(x) == x % Uint64Values

\* getMaxBlockProposers without the clamp.
getMaxBlockProposersUnclamped(e, id, failParams) ==
    IF id \in DOMAIN e.caches.mbp
    THEN [mbp |-> e.caches.mbp[id], e |-> e, err |-> nil]
    ELSE IF failParams
    THEN [mbp |-> 0, e |-> e, err |-> "params"]
    ELSE [mbp |-> Uint64(mbpParam),
          e |-> [e EXCEPT !.caches.mbp = Put(@, id, Uint64(mbpParam))],
          err |-> nil]

\* BFTEngine.getMaxBlockProposers: failParams makes the state read fail.
\* mbpParam is the big.Int that Params.Get yields.
getMaxBlockProposers(e, id, failParams) ==
    IF id \in DOMAIN e.caches.mbp
    THEN [mbp |-> e.caches.mbp[id], e |-> e, err |-> nil]
    ELSE IF failParams
    THEN [mbp |-> 0, e |-> e, err |-> "params"]
    ELSE LET mbp == IF Uint64(mbpParam) = 0 \/ Uint64(mbpParam) > InitialMaxBlockProposers
                    THEN InitialMaxBlockProposers ELSE Uint64(mbpParam)
         IN [mbp |-> mbp,
             e |-> [e EXCEPT !.caches.mbp = Put(@, id, mbp)],
             err |-> nil]

EmptyJustifier ==
    [checkpoint |-> 0, threshold |-> 0, parentQuality |-> 0, seen |-> {},
     voters |-> {}, comVoters |-> {}, commitAt |-> NoID]

\* The walk of computeState from header h down to number end.
RECURSIVE Walk(_, _, _, _)
Walk(repo, js, h, end) ==
    IF isCommitted(js) \/ repo[h].vote = NoVote THEN js
    ELSE LET js1 == AddBlock(js, h, repo[h].signer, repo[h].vote)
         IN IF Number(h) <= end THEN js1
            ELSE Walk(repo, js1, repo[h].parent, end)

RECURSIVE computeState(_, _, _)

\* newJustifier(engine, parentID).  fail = "state" makes its first
\* repository read fail, fail = "params" the state read.
newJustifier(e, parentID, fail) ==
    LET cp == getCheckPoint(Number(parentID) + 1)
        bad(e1, err) == [js |-> EmptyJustifier, e |-> e1, err |-> err]
        m == getMaxBlockProposers(e, parentID, fail = "params")
        prev == GetBlockID(e.repo, parentID, cp - 1)
        mk(e1, q) == [js |-> [EmptyJustifier EXCEPT !.checkpoint = cp,
                                                    !.threshold = Threshold(m.mbp),
                                                    !.parentQuality = q],
                      e |-> e1, err |-> nil]
    IN IF fail = "state" THEN bad(e, "state")
       ELSE IF m.err # nil THEN bad(m.e, m.err)
       ELSE IF cp = finality THEN mk(m.e, 0)
       ELSE IF prev = NoID THEN bad(m.e, "block not found")
       ELSE LET g == getQuality(m.e, prev)
            IN IF g.err = nil THEN mk(g.e, g.quality)
               ELSE LET r == computeState(m.e, prev, "none")
                    IN IF r.err # nil THEN bad(r.e, r.err)
                       ELSE mk(r.e, r.st.Quality)

\* BFTEngine.computeState
computeState(e, id, fail) ==
    IF id \in DOMAIN e.caches.state
    THEN [st |-> e.caches.state[id], e |-> e, err |-> nil]
    ELSE IF Number(id) = 0 \/ Number(id) < finality
    THEN [st |-> ZeroState, e |-> e, err |-> nil]
    ELSE
      LET parent == e.repo[id].parent
          hit == parent \in DOMAIN e.caches.justifier
          e0 == [e EXCEPT !.caches.justifier = Drop(@, parent)]
          extend == ~isCheckPoint(Number(id)) /\ hit
      IN Only({
           LET end == IF extend THEN Number(id) - 1 ELSE nj.js.checkpoint
               \* h.Signer() is the first fallible step of the walk
               signerFails == fail = "state" /\ extend /\ ~isCommitted(nj.js)
                              /\ e.repo[id].vote # NoVote
           IN IF nj.err # nil THEN [st |-> ZeroState, e |-> nj.e, err |-> nj.err]
              ELSE IF signerFails THEN [st |-> ZeroState, e |-> nj.e, err |-> "state"]
              ELSE Only({ [st |-> Summarize(js),
                           e |-> [nj.e EXCEPT !.caches.state = Put(@, id, Summarize(js)),
                                              !.caches.justifier = Put(@, id, js)],
                           err |-> nil] : js \in {Walk(e.repo, nj.js, id, end)} })
           : nj \in {IF extend
                     THEN [js |-> e.caches.justifier[parent], e |-> e0, err |-> nil]
                     ELSE newJustifier(e0, parent, fail)} })

\* The closure get of findCheckpointByQuality: the quality stored for the
\* store point of the i-th round from searchStart, on the branch of tip.
get(e, tip, searchStart, i) ==
    LET id == GetBlockID(e.repo, tip, getStorePoint(searchStart + i * CheckpointInterval))
    IN IF id = NoID THEN [quality |-> 0, e |-> e, err |-> "block not found"]
       ELSE getQuality(e, id)

\* sort.Search with f(i) == get(i) > target.
RECURSIVE SearchAbove(_, _, _, _, _, _)
SearchAbove(e, tip, searchStart, target, i, j) ==
    IF i >= j THEN [num |-> i, e |-> e, err |-> nil]
    ELSE LET h == (i + j) \div 2
             g == get(e, tip, searchStart, h)
         IN IF g.err # nil THEN [num |-> 0, e |-> g.e, err |-> g.err]
            ELSE IF ~(g.quality > target)
            THEN SearchAbove(g.e, tip, searchStart, target, h + 1, j)
            ELSE SearchAbove(g.e, tip, searchStart, target, i, h)

\* sort.Search(n, f) with f(i) == get(i) >= target; an error of get panics
\* out of the search and is recovered as the error of the call.
RECURSIVE Search(_, _, _, _, _, _)
Search(e, tip, searchStart, target, i, j) ==
    IF i >= j THEN [num |-> i, e |-> e, err |-> nil]
    ELSE LET h == (i + j) \div 2
             g == get(e, tip, searchStart, h)
         IN IF g.err # nil THEN [num |-> 0, e |-> g.e, err |-> g.err]
            ELSE IF ~(g.quality >= target)
            THEN Search(g.e, tip, searchStart, target, h + 1, j)
            ELSE Search(g.e, tip, searchStart, target, i, h)

\* findCheckpointByQuality searching from the activation checkpoint whatever
\* the finalized id is.
findCheckpointFromActivation(e, target, fin, parentID, failFind) ==
    LET searchStart == getCheckPoint(finality)
        n == (Number(parentID) + 1 - searchStart) \div CheckpointInterval
        bad(e1, err) == [id |-> NoID, e |-> e1, err |-> err]
        s == Search(e, parentID, searchStart, target, 0, n)
        g == get(s.e, parentID, searchStart, s.num)
        id == GetBlockID(e.repo, parentID, searchStart + s.num * CheckpointInterval)
    IN IF Number(parentID) + 1 < searchStart THEN bad(e, "block not found")
       ELSE IF failFind /\ n > 0 THEN bad(e, "find")
       ELSE IF s.err # nil THEN bad(s.e, s.err)
       ELSE IF s.num = n THEN bad(s.e, "failed find the block by quality")
       ELSE IF g.err # nil THEN bad(g.e, g.err)
       ELSE IF g.quality # target THEN bad(g.e, "failed to find the block by quality")
       ELSE IF id = NoID THEN bad(g.e, "block not found")
       ELSE [id |-> id, e |-> g.e, err |-> nil]

\* findCheckpointByQuality returning the last block of the round found.
findStorePointByQuality(e, target, fin, parentID, failFind) ==
    LET searchStart == IF Number(fin) = 0 THEN getCheckPoint(finality)
                       ELSE Number(fin)
        n == (Number(parentID) + 1 - searchStart) \div CheckpointInterval
        bad(e1, err) == [id |-> NoID, e |-> e1, err |-> err]
        s == Search(e, parentID, searchStart, target, 0, n)
        g == get(s.e, parentID, searchStart, s.num)
        id == GetBlockID(e.repo, parentID,
                         getStorePoint(searchStart + s.num * CheckpointInterval))
    IN IF Number(parentID) + 1 < searchStart THEN bad(e, "block not found")
       ELSE IF failFind /\ n > 0 THEN bad(e, "find")
       ELSE IF s.err # nil THEN bad(s.e, s.err)
       ELSE IF s.num = n THEN bad(s.e, "failed find the block by quality")
       ELSE IF g.err # nil THEN bad(g.e, g.err)
       ELSE IF g.quality # target THEN bad(g.e, "failed to find the block by quality")
       ELSE IF id = NoID THEN bad(g.e, "block not found")
       ELSE [id |-> id, e |-> g.e, err |-> nil]

\* BFTEngine.findCheckpointByQuality.  failFind makes its first repository
\* lookup fail.  block.Number(parentID) + 1 - searchStart is unsigned: below
\* zero it wraps to a huge count whose first probe is beyond the tip, which
\* the repository answers with not found.
findCheckpointByQuality(e, target, fin, parentID, failFind) ==
    LET searchStart == IF Number(fin) = 0 THEN getCheckPoint(finality)
                       ELSE Number(fin)
        n == (Number(parentID) + 1 - searchStart) \div CheckpointInterval
        bad(e1, err) == [id |-> NoID, e |-> e1, err |-> err]
        s == Search(e, parentID, searchStart, target, 0, n)
        g == get(s.e, parentID, searchStart, s.num)
        id == GetBlockID(e.repo, parentID, searchStart + s.num * CheckpointInterval)
    IN IF Number(parentID) + 1 < searchStart THEN bad(e, "block not found")
       ELSE IF failFind /\ n > 0 THEN bad(e, "find")
       ELSE IF s.err # nil THEN bad(s.e, s.err)
       ELSE IF s.num = n THEN bad(s.e, "failed find the block by quality")
       ELSE IF g.err # nil THEN bad(g.e, g.err)
       ELSE IF g.quality # target THEN bad(g.e, "failed to find the block by quality")
       ELSE IF id = NoID THEN bad(g.e, "block not found")
       ELSE [id |-> id, e |-> g.e, err |-> nil]

\* casts.Mark: append (checkpoint, quality) to the ledger.
Mark(c, checkpoint, quality) ==
    [init |-> TRUE,
     list |-> Append(c.list, [checkpoint |-> checkpoint, quality |-> quality])]

\* casts.Slice: prune the entries at or below the finalized number.
Slice(c, fin) ==
    [c EXCEPT !.list = SelectSeq(@, LAMBDA x : Number(x.checkpoint) > Number(fin))]

\* CommitBlock searching the checkpoint of the quality of the state itself.
CommitBlockSameQuality(e, id, isPacking, fail) ==
    Only({
      LET blockNum == Number(id)
          save == getStorePoint(blockNum) = blockNum
          e1 == IF save
                THEN [r.e EXCEPT !.data.quality = Put(@, id, r.st.Quality),
                                 !.caches.quality = Put(@, id, r.st.Quality)]
                ELSE r.e
          commits == r.st.CommitAt # NoID /\ id = r.st.CommitAt /\ r.st.Quality > 1
          checkpoint == GetBlockID(e.repo, id, getCheckPoint(blockNum))
      IN IF r.err # nil THEN [e |-> r.e, err |-> nil, hit |-> r.err = fail]
         ELSE IF save /\ fail = "putQuality"
         THEN [e |-> r.e, err |-> "putQuality", hit |-> TRUE]
         ELSE Only({
           LET e2 == IF commits
                     THEN [f.e EXCEPT !.data.finalized = f.id, !.finalized = f.id]
                     ELSE e1
               e3 == IF isPacking
                     THEN [e2 EXCEPT !.casts = Mark(@, checkpoint, r.st.Quality)]
                     ELSE e2
           IN IF commits /\ f.err # nil
              THEN [e |-> f.e, err |-> f.err, hit |-> f.err = fail]
              ELSE IF commits /\ fail = "putFinalized"
              THEN [e |-> f.e, err |-> "putFinalized", hit |-> TRUE]
              ELSE IF isPacking /\ fail = "checkpoint"
              THEN [e |-> e2, err |-> "checkpoint", hit |-> TRUE]
              ELSE [e |-> e3, err |-> nil, hit |-> FALSE]
           : f \in {IF commits
                    THEN findCheckpointByQuality(e1, r.st.Quality, e1.finalized, id,
                                                 fail = "find")
                    ELSE [id |-> NoID, e |-> e1, err |-> nil]} })
      : r \in {computeState(e, id, fail)} })

\* CommitBlock storing the finalized id in memory before the write of the
\* finalized key.
CommitBlockStoreFirst(e, id, isPacking, fail) ==
    Only({
      LET blockNum == Number(id)
          save == getStorePoint(blockNum) = blockNum
          e1 == IF save
                THEN [r.e EXCEPT !.data.quality = Put(@, id, r.st.Quality),
                                 !.caches.quality = Put(@, id, r.st.Quality)]
                ELSE r.e
          commits == r.st.CommitAt # NoID /\ id = r.st.CommitAt /\ r.st.Quality > 1
          checkpoint == GetBlockID(e.repo, id, getCheckPoint(blockNum))
      IN IF r.err # nil THEN [e |-> r.e, err |-> nil, hit |-> r.err = fail]
         ELSE IF save /\ fail = "putQuality"
         THEN [e |-> r.e, err |-> "putQuality", hit |-> TRUE]
         ELSE Only({
           LET e2 == IF commits
                     THEN [f.e EXCEPT !.data.finalized = f.id, !.finalized = f.id]
                     ELSE e1
               e3 == IF isPacking
                     THEN [e2 EXCEPT !.casts = Mark(@, checkpoint, r.st.Quality)]
                     ELSE e2
           IN IF commits /\ f.err # nil
              THEN [e |-> f.e, err |-> f.err, hit |-> f.err = fail]
              ELSE IF commits /\ fail = "putFinalized"
              THEN [e |-> [f.e EXCEPT !.finalized = f.id], err |-> "putFinalized",
                    hit |-> TRUE]
              ELSE IF isPacking /\ fail = "checkpoint"
              THEN [e |-> e2, err |-> "checkpoint", hit |-> TRUE]
              ELSE [e |-> e3, err |-> nil, hit |-> FALSE]
           : f \in {IF commits
                    THEN findCheckpointByQuality(e1, r.st.Quality - 1, e1.finalized, id,
                                                 fail = "find")
                    ELSE [id |-> NoID, e |-> e1, err |-> nil]} })
      : r \in {computeState(e, id, fail)} })

\* CommitBlock updating the finalized id before the write of the quality: a
\* failing quality write leaves the finalized id moved.
CommitBlockFinalizedFirst(e, id, isPacking, fail) ==
    Only({
      LET blockNum == Number(id)
          save == getStorePoint(blockNum) = blockNum
          e1 == IF save
                THEN [r.e EXCEPT !.data.quality = Put(@, id, r.st.Quality),
                                 !.caches.quality = Put(@, id, r.st.Quality)]
                ELSE r.e
          commits == r.st.CommitAt # NoID /\ id = r.st.CommitAt /\ r.st.Quality > 1
          checkpoint == GetBlockID(e.repo, id, getCheckPoint(blockNum))
      IN IF r.err # nil THEN [e |-> r.e, err |-> nil, hit |-> r.err = fail]
         ELSE Only({
           LET e2 == IF commits
                     THEN [f.e EXCEPT !.data.finalized = f.id, !.finalized = f.id]
                     ELSE e1
               e3 == IF isPacking
                     THEN [e2 EXCEPT !.casts = Mark(@, checkpoint, r.st.Quality)]
                     ELSE e2
           IN IF commits /\ f.err # nil
              THEN [e |-> f.e, err |-> f.err, hit |-> f.err = fail]
              ELSE IF commits /\ fail = "putFinalized"
              THEN [e |-> f.e, err |-> "putFinalized", hit |-> TRUE]
              ELSE IF save /\ fail = "putQuality"
              THEN [e |-> [e2 EXCEPT !.data.quality = r.e.data.quality,
                                     !.caches.quality = r.e.caches.quality],
                    err |-> "putQuality", hit |-> TRUE]
              ELSE IF isPacking /\ fail = "checkpoint"
              THEN [e |-> e2, err |-> "checkpoint", hit |-> TRUE]
              ELSE [e |-> e3, err |-> nil, hit |-> FALSE]
           : f \in {IF commits
                    THEN findCheckpointByQuality(e1, r.st.Quality - 1, e1.finalized, id,
                                                 fail = "find")
                    ELSE [id |-> NoID, e |-> e1, err |-> nil]} })
      : r \in {computeState(e, id, fail)} })

\* CommitBlock adding the quality to the LRU before the store has taken it.
CommitBlockCacheFirst(e, id, isPacking, fail) ==
    Only({
      LET blockNum == Number(id)
          save == getStorePoint(blockNum) = blockNum
          e1 == IF save
                THEN [r.e EXCEPT !.data.quality = Put(@, id, r.st.Quality),
                                 !.caches.quality = Put(@, id, r.st.Quality)]
                ELSE r.e
          commits == r.st.CommitAt # NoID /\ id = r.st.CommitAt /\ r.st.Quality > 1
          checkpoint == GetBlockID(e.repo, id, getCheckPoint(blockNum))
      IN IF r.err # nil THEN [e |-> r.e, err |-> nil, hit |-> r.err = fail]
         ELSE IF save /\ fail = "putQuality"
         THEN [e |-> [r.e EXCEPT !.caches.quality = Put(@, id, r.st.Quality)],
               err |-> "putQuality", hit |-> TRUE]
         ELSE Only({
           LET e2 == IF commits
                     THEN [f.e EXCEPT !.data.finalized = f.id, !.finalized = f.id]
                     ELSE e1
               e3 == IF isPacking
                     THEN [e2 EXCEPT !.casts = Mark(@, checkpoint, r.st.Quality)]
                     ELSE e2
           IN IF commits /\ f.err # nil
              THEN [e |-> f.e, err |-> f.err, hit |-> f.err = fail]
              ELSE IF commits /\ fail = "putFinalized"
              THEN [e |-> f.e, err |-> "putFinalized", hit |-> TRUE]
              ELSE IF isPacking /\ fail = "checkpoint"
              THEN [e |-> e2, err |-> "checkpoint", hit |-> TRUE]
              ELSE [e |-> e3, err |-> nil, hit |-> FALSE]
           : f \in {IF commits
                    THEN findCheckpointByQuality(e1, r.st.Quality - 1, e1.finalized, id,
                                                 fail = "find")
                    ELSE [id |-> NoID, e |-> e1, err |-> nil]} })
      : r \in {computeState(e, id, fail)} })

\* BFTEngine.CommitBlock.  fail names the step that fails, if any; hit tells
\* that the call reached that step.
CommitBlockOp(e, id, isPacking, fail) ==
    Only({
      LET blockNum == Number(id)
          save == getStorePoint(blockNum) = blockNum
          e1 == IF save
                THEN [r.e EXCEPT !.data.quality = Put(@, id, r.st.Quality),
                                 !.caches.quality = Put(@, id, r.st.Quality)]
                ELSE r.e
          commits == r.st.CommitAt # NoID /\ id = r.st.CommitAt /\ r.st.Quality > 1
          checkpoint == GetBlockID(e.repo, id, getCheckPoint(blockNum))
      IN IF r.err # nil THEN [e |-> r.e, err |-> nil, hit |-> r.err = fail]
         ELSE IF save /\ fail = "putQuality"
         THEN [e |-> r.e, err |-> "putQuality", hit |-> TRUE]
         ELSE Only({
           LET e2 == IF commits
                     THEN [f.e EXCEPT !.data.finalized = f.id, !.finalized = f.id]
                     ELSE e1
               e3 == IF isPacking
                     THEN [e2 EXCEPT !.casts = Mark(@, checkpoint, r.st.Quality)]
                     ELSE e2
           IN IF commits /\ f.err # nil
              THEN [e |-> f.e, err |-> f.err, hit |-> f.err = fail]
              ELSE IF commits /\ fail = "putFinalized"
              THEN [e |-> f.e, err |-> "putFinalized", hit |-> TRUE]
              ELSE IF isPacking /\ fail = "checkpoint"
              THEN [e |-> e2, err |-> "checkpoint", hit |-> TRUE]
              ELSE [e |-> e3, err |-> nil, hit |-> FALSE]
           : f \in {IF commits
                    THEN findCheckpointByQuality(e1, r.st.Quality - 1, e1.finalized, id,
                                                 fail = "find")
                    ELSE [id |-> NoID, e |-> e1, err |-> nil]} })
      : r \in {computeState(e, id, fail)} })

\* The zero value of block.Vote, which a bare return of GetVote yields.
VoteZero == COM

\* The loop of GetVote sparing the casts of quality theQuality - 1.
RECURSIVE VoteLoopStrict(_, _, _, _, _)
VoteLoopStrict(repo, list, i, recentJC, theQuality) ==
    IF i > Len(list) THEN COM
    ELSE LET cast == list[i]
             swap == Number(cast.checkpoint) > Number(recentJC)
             x == IF swap THEN cast.checkpoint ELSE recentJC
             y == IF swap THEN recentJC ELSE cast.checkpoint
         IN IF ~HasBlock(repo, x, y) /\ cast.quality > theQuality - 1 THEN WIT
            ELSE VoteLoopStrict(repo, list, i + 1, recentJC, theQuality)

\* The loop of GetVote over the retained casts: WIT at the first cast that
\* conflicts with recentJC and has quality >= theQuality - 1.
RECURSIVE VoteLoop(_, _, _, _, _)
VoteLoop(repo, list, i, recentJC, theQuality) ==
    IF i > Len(list) THEN COM
    ELSE LET cast == list[i]
             swap == Number(cast.checkpoint) > Number(recentJC)
             x == IF swap THEN cast.checkpoint ELSE recentJC
             y == IF swap THEN recentJC ELSE cast.checkpoint
         IN IF ~HasBlock(repo, x, y) /\ cast.quality >= theQuality - 1 THEN WIT
            ELSE VoteLoop(repo, list, i + 1, recentJC, theQuality)

\* The most recent justified checkpoint always searched by quality.
recentJCBySearch(e, st, parentID, failJC) ==
    findCheckpointByQuality(e, st.Quality, e.finalized, parentID, failJC)

\* The most recent justified checkpoint of GetVote.  failJC makes the lookup
\* of either branch fail, and the error is the one GetVote returns.
recentJC(e, st, parentID, failJC) ==
    IF st.Justified
    THEN IF failJC THEN [id |-> NoID, e |-> e, err |-> "jc"]
         ELSE [id |-> GetBlockID(e.repo, parentID, getCheckPoint(Number(parentID))),
               e |-> e, err |-> nil]
    ELSE \* the error of the failing lookup carries the name of the failure
         Only({ IF f.err = "find" THEN [f EXCEPT !.err = "jc"] ELSE f
                : f \in {findCheckpointByQuality(e, st.Quality, e.finalized, parentID,
                                                 failJC)} })

\* GetVote without the return at quality 0.
GetVoteNoZeroReturn(e, parentID, fail) ==
    LET e0 == [e EXCEPT !.casts.init = TRUE]
    IN IF ~e.casts.init /\ fail = "casts" THEN [v |-> VoteZero, e |-> e, err |-> "casts"]
       ELSE IF fail = "summary" THEN [v |-> VoteZero, e |-> e0, err |-> "summary"]
       ELSE Only({
         IF r.err # nil THEN [v |-> VoteZero, e |-> r.e, err |-> r.err]
         ELSE Only({
           LET sl == Slice(jc.e.casts, jc.e.finalized)
               e1 == [jc.e EXCEPT !.casts = sl]
           IN IF jc.err # nil THEN [v |-> WIT, e |-> jc.e, err |-> jc.err]
              ELSE IF fail = "hasBlock" /\ Len(sl.list) > 0
              THEN [v |-> WIT, e |-> e1, err |-> "hasBlock"]
              ELSE [v |-> VoteLoop(e.repo, sl.list, 1, jc.id, r.st.Quality), e |-> e1,
                    err |-> nil]
           : jc \in {recentJC(r.e, r.st, parentID, fail = "jc")} })
         : r \in {computeState(e0, parentID, fail)} })

\* BFTEngine.GetVote
GetVoteOp(e, parentID, fail) ==
    LET e0 == [e EXCEPT !.casts.init = TRUE]
    IN IF ~e.casts.init /\ fail = "casts" THEN [v |-> VoteZero, e |-> e, err |-> "casts"]
       ELSE IF fail = "summary" THEN [v |-> VoteZero, e |-> e0, err |-> "summary"]
       ELSE Only({
         IF r.err # nil THEN [v |-> VoteZero, e |-> r.e, err |-> r.err]
         ELSE IF r.st.Quality = 0 THEN [v |-> VoteZero, e |-> r.e, err |-> nil]
         ELSE Only({
           LET sl == Slice(jc.e.casts, jc.e.finalized)
               e1 == [jc.e EXCEPT !.casts = sl]
           IN IF jc.err # nil THEN [v |-> WIT, e |-> jc.e, err |-> jc.err]
              ELSE IF fail = "hasBlock" /\ Len(sl.list) > 0
              THEN [v |-> WIT, e |-> e1, err |-> "hasBlock"]
              ELSE [v |-> VoteLoop(e.repo, sl.list, 1, jc.id, r.st.Quality), e |-> e1,
                    err |-> nil]
           : jc \in {recentJC(r.e, r.st, parentID, fail = "jc")} })
         : r \in {computeState(e0, parentID, fail)} })

\* Accepts asking whether parentID is on the branch of the finalized block.
AcceptsSwapped(e, parentID, fail) ==
    IF Number(e.finalized) # 0
    THEN IF fail = "hasBlock" THEN [ok |-> FALSE, err |-> "hasBlock"]
         ELSE IF ~HasBlock(e.repo, e.finalized, parentID) THEN [ok |-> FALSE, err |-> nil]
         ELSE [ok |-> TRUE, err |-> nil]
    ELSE [ok |-> TRUE, err |-> nil]

\* BFTEngine.Accepts
AcceptsOp(e, parentID, fail) ==
    IF Number(e.finalized) # 0
    THEN IF fail = "hasBlock" THEN [ok |-> FALSE, err |-> "hasBlock"]
         ELSE IF ~HasBlock(e.repo, parentID, e.finalized) THEN [ok |-> FALSE, err |-> nil]
         ELSE [ok |-> TRUE, err |-> nil]
    ELSE [ok |-> TRUE, err |-> nil]

\* block.Header.BetterThan: the larger total score, then the smaller id.  The
\* total score of a header is its number (every block weighs one), and of two
\* ids with one number the one of branch 0 is the smaller.
BetterThan(id, other) ==
    \/ Number(id) > Number(other)
    \/ Number(id) = Number(other) /\ id[2] < other[2]

\* Select deciding by the order of the headers alone.
SelectByOrder(e, id, best, fail) ==
    Only({
      IF newSt.err # nil THEN [ok |-> FALSE, e |-> newSt.e, err |-> newSt.err]
      ELSE Only({
        IF bestSt.err # nil THEN [ok |-> FALSE, e |-> bestSt.e, err |-> bestSt.err]
        ELSE [ok |-> BetterThan(id, best), e |-> bestSt.e, err |-> nil]
        : bestSt \in {computeState(newSt.e, best, "none")} })
      : newSt \in {computeState(e, id, fail)} })

\* Select writing the quality of the new header to the store.
SelectStoringQuality(e, id, best, fail) ==
    Only({
      IF newSt.err # nil THEN [ok |-> FALSE, e |-> newSt.e, err |-> newSt.err]
      ELSE Only({
        IF bestSt.err # nil THEN [ok |-> FALSE, e |-> bestSt.e, err |-> bestSt.err]
        ELSE [ok |-> IF newSt.st.Quality # bestSt.st.Quality
                     THEN newSt.st.Quality > bestSt.st.Quality
                     ELSE BetterThan(id, best),
              e |-> [bestSt.e EXCEPT !.data.quality = Put(@, id, newSt.st.Quality)],
              err |-> nil]
        : bestSt \in {computeState(newSt.e, best, "none")} })
      : newSt \in {computeState(e, id, fail)} })

\* BFTEngine.Select, with best the header of repo.BestBlockSummary().
SelectOp(e, id, best, fail) ==
    Only({
      IF newSt.err # nil THEN [ok |-> FALSE, e |-> newSt.e, err |-> newSt.err]
      ELSE Only({
        IF bestSt.err # nil THEN [ok |-> FALSE, e |-> bestSt.e, err |-> bestSt.err]
        ELSE [ok |-> IF newSt.st.Quality # bestSt.st.Quality
                     THEN newSt.st.Quality > bestSt.st.Quality
                     ELSE BetterThan(id, best),
              e |-> bestSt.e, err |-> nil]
        : bestSt \in {computeState(newSt.e, best, "none")} })
      : newSt \in {computeState(e, id, fail)} })

\* ---------------------------------------------------------------- state

Empty == [x \in {} |-> 0]

EmptyCaches == [state |-> Empty, quality |-> Empty, mbp |-> Empty, justifier |-> Empty]

E == [repo |-> blocks, finalized |-> finalized, data |-> data, caches |-> caches,
      casts |-> casts]

SetE(e) ==
    /\ blocks' = e.repo
    /\ finalized' = e.finalized
    /\ data' = e.data
    /\ caches' = e.caches
    /\ casts' = e.casts

\* A call with fail = "none" injects nothing; any other is the behaviour's
\* one disturbance, and is taken only when the call reaches the failing step
\* (err is the error that step raised).
Inject(fail, err) ==
    /\ fail # "none" => ~disturbed /\ err = fail
    /\ disturbed' = (disturbed \/ fail # "none")

Ret(op, id, fail, err, val) ==
    [op |-> op, id |-> id, fail |-> fail, err |-> err, val |-> val]

Genesis == [parent |-> NoID, signer |-> "s1", vote |-> NoVote]

\* The trunk: the blocks below the activation number, then one round that
\* s1 and s2 justify and commit with COM votes.
TrunkTip == <<finality + CheckpointInterval - 1, 0>>

TrunkHeader(n) ==
    IF n = 0 THEN Genesis
    ELSE [parent |-> <<n - 1, 0>>,
          signer |-> IF n < CheckpointInterval \/ isCheckPoint(n) THEN "s1" ELSE "s2",
          vote |-> IF n < CheckpointInterval THEN NoVote ELSE COM]

Trunk == [x \in (0..(2 * CheckpointInterval - 1)) \X {0} |-> TrunkHeader(Number(x))]

\* NewEngine on the trunk and an empty store: the finalized key is not found,
\* the pointer is the genesis id and every cache is empty.
NewEngine ==
    [repo |-> Trunk,
     finalized |-> GenesisID,
     data |-> [finalized |-> NoID, quality |-> Empty],
     caches |-> EmptyCaches,
     casts |-> [init |-> FALSE, list |-> <<>>]]

\* No justifier is under test.
NoTally == [js |-> EmptyJustifier, pool |-> <<>>, fed |-> {}]

\* The zero value of the Signal holding a single channel: ch is nil (0).
ZeroSignal == [ch |-> 0, chans |-> <<>>, refs |-> <<>>]

\* NewEngine leaving the stored finalized id unread.
NewEngineAtGenesis(repo, d) ==
    [repo |-> repo,
     finalized |-> GenesisID,
     data |-> d,
     caches |-> EmptyCaches,
     casts |-> [init |-> FALSE, list |-> <<>>]]

\* NewEngine on a repository and a store: the pointer is the stored finalized
\* id, or the genesis id when the key is not found; the caches are empty and
\* the casts are nil.
NewEngineOn(repo, d) ==
    [repo |-> repo,
     finalized |-> IF d.finalized = NoID THEN GenesisID ELSE d.finalized,
     data |-> d,
     caches |-> EmptyCaches,
     casts |-> [init |-> FALSE, list |-> <<>>]]

\* The repository holds the trunk, which the engine has committed block by
\* block in chain order.
InitEngine ==
    /\ finality = CheckpointInterval
    /\ mbpParam = 1
    /\ \E e1 \in {CommitBlockOp(NewEngine, <<1, 0>>, FALSE, "none").e} :
       \E e2 \in {CommitBlockOp(e1, <<2, 0>>, FALSE, "none").e} :
       \E e3 \in {CommitBlockOp(e2, <<3, 0>>, FALSE, "none").e} :
          /\ blocks = e3.repo
          /\ finalized = e3.finalized
          /\ data = e3.data
          /\ caches = e3.caches
          /\ casts = e3.casts
    /\ disturbed = FALSE
    /\ ret = Ret("NewEngine", NoID, "none", nil, nil)

Init ==
    /\ InitEngine
    /\ tally = NoTally
    /\ waiters = <<>>
    /\ sig = ZeroSignal
    /\ OthersIdle

\* ----------------------------------------------------------- repository

\* The child of parent on branch br: a branch continues with its own
\* blocks, and branch 1 forks off branch 0 once, at a round boundary from
\* the trunk's tip on.
CanExtend(parent, br) ==
    /\ parent \in DOMAIN blocks
    /\ Number(parent) < MaxNumber
    /\ <<Number(parent) + 1, br>> \notin DOMAIN blocks
    /\ \/ br = parent[2]
       \/ br = 1 /\ parent[2] = 0 /\ getStorePoint(Number(parent)) = Number(parent)
          /\ Number(parent) >= Number(TrunkTip)
          /\ \A x \in DOMAIN blocks : x[2] = 0

\* Headers carry a vote from the activation number on.  The block opening a
\* round is signed by s1; imported, it votes COM, and the later blocks of a
\* round are s1 voting COM or another signer voting either way.
HeaderSigners(n) == IF n < finality \/ isCheckPoint(n) THEN {"s1"} ELSE Signers

HeaderVotes(n, signer) ==
    IF n < finality THEN {NoVote}
    ELSE IF isCheckPoint(n) \/ signer = "s1" THEN {COM}
    ELSE {COM, WIT}

\* A block of another node reaches the repository, and the node commits it.
Import(parent, br, signer, vote, fail) ==
    /\ CanExtend(parent, br)
    /\ signer \in HeaderSigners(Number(parent) + 1)
    /\ vote \in HeaderVotes(Number(parent) + 1, signer)
    /\ \E id \in {<<Number(parent) + 1, br>>} :
       \E e \in {[E EXCEPT !.repo = Put(@, id, [parent |-> parent, signer |-> signer,
                                                 vote |-> vote])]} :
       \E c \in {CommitBlockOp(e, id, FALSE, fail)} :
          /\ Inject(fail, IF c.hit THEN fail ELSE nil)
          /\ SetE(c.e)
          /\ ret' = Ret("CommitBlock", id, fail, c.err, nil)
    /\ UNCHANGED <<others, finality, mbpParam, tally, waiters, sig>>

\* ------------------------------------------------------------ operations

\* CommitBlock on a header of any branch in the store.
CommitBlock(id, isPacking, fail) ==
    /\ id \in DOMAIN blocks
    /\ isPacking => Len(casts.list) < MaxCasts
    /\ \E c \in {CommitBlockOp(E, id, isPacking, fail)} :
          /\ Inject(fail, IF c.hit THEN fail ELSE nil)
          /\ SetE(c.e)
          /\ ret' = Ret("CommitBlock", id, fail, c.err, nil)
    /\ UNCHANGED <<others, finality, mbpParam, tally, waiters, sig>>

\* The packer: GetVote(parent), then a child signed by the local node and
\* carrying the returned vote, which the node adds and commits as packed.
Pack(parent, br) ==
    /\ CanExtend(parent, br)
    /\ Number(parent) + 1 >= finality
    /\ Len(casts.list) < MaxCasts
    /\ \E id \in {<<Number(parent) + 1, br>>} :
       \E g \in {GetVoteOp(E, parent, "none")} :
          /\ g.err = nil
          /\ \E e \in {[g.e EXCEPT !.repo = Put(@, id, [parent |-> parent,
                                                        signer |-> Master,
                                                        vote |-> g.v])]} :
             \E c \in {CommitBlockOp(e, id, TRUE, "none")} :
                /\ SetE(c.e)
                /\ ret' = Ret("CommitBlock", id, "none", c.err, g.v)
    /\ UNCHANGED <<others, finality, mbpParam, tally, waiters, sig, disturbed>>

GetVote(parentID, fail) ==
    /\ parentID \in DOMAIN blocks
    /\ \E g \in {GetVoteOp(E, parentID, fail)} :
          /\ Inject(fail, g.err)
          /\ SetE(g.e)
          /\ ret' = Ret("GetVote", parentID, fail, g.err, g.v)
    /\ UNCHANGED <<others, finality, mbpParam, tally, waiters, sig>>

Accepts(parentID, fail) ==
    /\ parentID \in DOMAIN blocks
    /\ \E a \in {AcceptsOp(E, parentID, fail)} :
          /\ Inject(fail, a.err)
          /\ ret' = Ret("Accepts", parentID, fail, a.err, a.ok)
    /\ UNCHANGED <<others, tally, waiters, sig, blocks, finality, mbpParam, finalized, data, caches, casts>>

\* ---------------------------------------------------------------- caches

\* The state LRU and/or the justifier priority cache lose their entries.
Evict(what) ==
    /\ ~disturbed
    /\ disturbed' = TRUE
    /\ caches' = [caches EXCEPT
                    !.state = IF what \in {"state", "both"} THEN Empty ELSE @,
                    !.justifier = IF what \in {"justifier", "both"} THEN Empty ELSE @]
    /\ caches' # caches
    /\ UNCHANGED <<others, tally, waiters, sig, blocks, finality, mbpParam, finalized, data, casts, ret>>

CommitFails == {"none", "state", "putQuality", "find", "putFinalized"}

\* id has no child in the repository.
IsHead(id) ==
    \A b \in Branches :
        (<<Number(id) + 1, b>> \in DOMAIN blocks) => (blocks[<<Number(id) + 1, b>>].parent # id)

\* The packer asks for the vote to embed in the child of a head, or in the
\* block at the activation number.
HeadVote(id) ==
    /\ IsHead(id) \/ Number(id) + 1 = finality
    /\ GetVote(id, "none")

\* The importing node: blocks of both branches arrive and are committed,
\* headers of the store are committed again, and Accepts is asked.
Next ==
    \/ \E parent \in Ids, br \in Branches, signer \in Signers, vote \in {COM, WIT, NoVote} :
           Import(parent, br, signer, vote, "none")
    \/ \E id \in Ids : CommitBlock(id, FALSE, "none")
    \/ \E id \in Ids, fail \in {"none", "hasBlock"} : Accepts(id, fail)

Spec == Init /\ [][Next]_vars

\* The importing node with one failing step in a CommitBlock.
NextFail ==
    \/ \E parent \in Ids, br \in Branches, signer \in Signers, vote \in {COM, WIT, NoVote},
          fail \in CommitFails :
           Import(parent, br, signer, vote, fail)

SpecFail == Init /\ [][NextFail]_vars

\* The packing node: it imports blocks, packs its own with the vote GetVote
\* returned, and asks GetVote about the heads it may build upon and about
\* the parent of the block at the activation number.
NextVote ==
    \/ \E parent \in Ids, br \in Branches, signer \in Signers, vote \in {COM, WIT, NoVote} :
           Import(parent, br, signer, vote, "none")
    \/ \E parent \in Ids, br \in Branches : Pack(parent, br)
    \/ \E id \in Ids : HeadVote(id)

SpecVote == Init /\ [][NextVote]_vars

\* One branch, with cache evictions and headers committed again.
NextCache ==
    \/ \E parent \in Ids, signer \in Signers, vote \in {COM, WIT, NoVote} :
           Import(parent, 0, signer, vote, "none")
    \/ \E id \in Ids : CommitBlock(id, FALSE, "none")
    \/ \E what \in {"state", "justifier", "both"} : Evict(what)

SpecCache == Init /\ [][NextCache]_vars

\* ---------------------------------------------------------------- readers

\* BFTEngine.Finalized
Finalized ==
    /\ ret' = Ret("Finalized", NoID, "none", nil, finalized)
    /\ UNCHANGED <<others, tally, waiters, sig, blocks, finality, mbpParam, finalized, data,
                   caches, casts, disturbed>>

\* Select(header) while the best block of the repository is best: the heads
\* of the branches are compared.
Select(id, best, fail) ==
    /\ id \in DOMAIN blocks /\ IsHead(id)
    /\ best \in DOMAIN blocks /\ IsHead(best)
    /\ \E s \in {SelectOp(E, id, best, fail)} :
          /\ Inject(fail, s.err)
          /\ SetE(s.e)
          /\ ret' = Ret("Select", id, fail, s.err, [best |-> best, ok |-> s.ok])
    /\ UNCHANGED <<others, finality, mbpParam, tally, waiters, sig>>

\* The reading node: blocks of both branches are imported, and the reader
\* operations are called on the heads, GetVote with or without a failing
\* lookup.
NextRead ==
    \/ \E parent \in Ids, br \in Branches, signer \in Signers, vote \in {COM, WIT, NoVote} :
           Import(parent, br, signer, vote, "none")
    \/ Finalized
    \/ \E id \in Ids : IsHead(id) /\ Accepts(id, "none")
    \/ \E id \in Ids, best \in Ids : Select(id, best, "none")
    \/ \E id \in Ids, fail \in {"none", "summary", "jc"} : IsHead(id) /\ GetVote(id, fail)

SpecRead == Init /\ [][NextRead]_vars

\* The reading node on one branch whose caches may lose their entries: the
\* reader operations then compute the states again.
NextReadCache ==
    \/ \E parent \in Ids, signer \in Signers, vote \in {COM, WIT, NoVote} :
           Import(parent, 0, signer, vote, "none")
    \/ Evict("both")
    \/ Finalized
    \/ \E id \in Ids : IsHead(id) /\ Accepts(id, "none")
    \/ \E id \in Ids, best \in Ids : Select(id, best, "none")
    \/ \E id \in Ids, fail \in {"none", "summary", "jc"} : IsHead(id) /\ GetVote(id, fail)

SpecReadCache == Init /\ [][NextReadCache]_vars

\* CommitBlock called a second time with the arguments of the call that has
\* just succeeded (a packed header has the vote of GetVote in ret.val).
CommitAgain ==
    /\ ret.op = "CommitBlock" /\ ret.err = nil
    /\ ret.val # nil => Len(casts.list) < MaxCasts
    /\ \E c \in {CommitBlockOp(E, ret.id, ret.val # nil, "none")} :
          /\ SetE(c.e)
          /\ ret' = Ret("CommitBlock", ret.id, "none", c.err, ret.val)
    /\ UNCHANGED <<others, finality, mbpParam, tally, waiters, sig, disturbed>>

\* The packing node calling CommitBlock twice.
NextAgain ==
    \/ \E parent \in Ids, br \in Branches, signer \in Signers, vote \in {COM, WIT, NoVote} :
           Import(parent, br, signer, vote, "none")
    \/ \E parent \in Ids, br \in Branches : Pack(parent, br)
    \/ CommitAgain

SpecAgain == Init /\ [][NextAgain]_vars

\* The node restarts after a CommitBlock that returned an error: NewEngine on
\* the repository and the store as they are.
Restart ==
    /\ ret.op = "CommitBlock" /\ ret.err # nil
    /\ SetE(NewEngineOn(blocks, data))
    /\ ret' = Ret("NewEngine", NoID, "none", nil, nil)
    /\ UNCHANGED <<others, finality, mbpParam, tally, waiters, sig, disturbed>>

\* The importing node with a write of the finalized key that fails, a
\* restart after it, and heads committed again.
NextCrash ==
    \/ \E parent \in Ids, br \in Branches, signer \in Signers, vote \in {COM, WIT, NoVote},
          fail \in {"none", "putFinalized"} :
           Import(parent, br, signer, vote, fail)
    \/ Restart
    \/ \E id \in Ids : IsHead(id) /\ CommitBlock(id, FALSE, "none")

SpecCrash == Init /\ [][NextCrash]_vars

\* NewEngine with the read of the finalized key that may fail with an error
\* other than not found (fail = "get"): no engine is returned then.
NewEngineOp(repo, d, fail) ==
    IF fail = "get" THEN [e |-> nil, err |-> "get"]
    ELSE [e |-> NewEngineOn(repo, d), err |-> nil]

\* The node constructs its engine anew on the repository and the store as
\* they are; a failed construction leaves it without a new engine.
Boot(fail) ==
    /\ \E n \in {NewEngineOp(blocks, data, fail)} :
          /\ Inject(fail, n.err)
          /\ IF n.err = nil THEN SetE(n.e)
             ELSE UNCHANGED <<blocks, finalized, data, caches, casts>>
          /\ ret' = Ret("NewEngine", NoID, fail, n.err,
                        IF n.err = nil THEN "engine" ELSE nil)
    /\ UNCHANGED <<others, finality, mbpParam, tally, waiters, sig>>

\* The importing node on one branch, constructed anew at any time.
NextBoot ==
    \/ \E parent \in Ids, signer \in Signers, vote \in {COM, WIT, NoVote} :
           Import(parent, 0, signer, vote, "none")
    \/ \E fail \in {"none", "get"} : Boot(fail)

SpecBoot == Init /\ [][NextBoot]_vars

\* ------------------------------------------------------- a round's tally

\* Number of blocks of the round under tally.
RoundBlocks == 3

Proposers == {"p1", "p2", "p3"}

\* A new justifier for a round whose blocks are signed by any proposers with
\* any votes, for every threshold the max-block-proposers parameter can give
\* and a parent quality of 0 or 1.
InitTally ==
    /\ InitEngine
    /\ tally \in {[js |-> [EmptyJustifier EXCEPT !.threshold = Threshold(mbp),
                                                 !.parentQuality = q],
                   pool |-> p, fed |-> {}] :
                      mbp \in 1..InitialMaxBlockProposers, q \in 0..1,
                      p \in [1..RoundBlocks -> [signer : Proposers, vote : {COM, WIT}]]}
    /\ waiters = <<>>
    /\ sig = ZeroSignal
    /\ OthersIdle

\* js.AddBlock(h.ID(), signer, *h.Vote()) for block i of the round, in any
\* order and any number of times.
AddBlockStep(i) ==
    /\ i \in DOMAIN tally.pool
    /\ tally' = [tally EXCEPT
                   !.js = AddBlock(@, <<i, 0>>, tally.pool[i].signer, tally.pool[i].vote),
                   !.fed = @ \cup {i}]
    /\ UNCHANGED <<others, blocks, finality, mbpParam, finalized, data, caches, casts,
                   disturbed, ret, waiters, sig>>

NextTally == \E i \in 1..RoundBlocks : AddBlockStep(i)

SpecTally == InitTally /\ [][NextTally]_vars

\* ------------------------------------------- a round straddling activation

\* The blocks 0..RoundBlocks-1, below the activation number: no vote.
LegacyTrunk ==
    [x \in (0..(RoundBlocks - 1)) \X {0} |->
        IF Number(x) = 0 THEN Genesis
        ELSE [parent |-> <<Number(x) - 1, 0>>, signer |-> "s1", vote |-> NoVote]]

\* An engine on the legacy trunk, for rounds of RoundBlocks blocks; the
\* activation number lies inside the round RoundBlocks..2*RoundBlocks-1,
\* after its first block, and the max-block-proposers parameter is 1 or 2.
InitStraddle ==
    /\ blocks = LegacyTrunk
    /\ finality \in (RoundBlocks + 1)..(2 * RoundBlocks - 1)
    /\ mbpParam \in 1..InitialMaxBlockProposers
    /\ finalized = GenesisID
    /\ data = [finalized |-> NoID, quality |-> Empty]
    /\ caches = EmptyCaches
    /\ casts = [init |-> FALSE, list |-> <<>>]
    /\ disturbed = FALSE
    /\ ret = Ret("NewEngine", NoID, "none", nil, nil)
    /\ tally = NoTally
    /\ waiters = <<>>
    /\ sig = ZeroSignal
    /\ OthersIdle

\* BFTEngine.computeState for rounds of RoundBlocks blocks.  The new
\* justifier of the round has the threshold of the clamped parameter and the
\* quality of the block before the round's checkpoint as parent quality; that
\* block is below the activation number, so its quality is 0.
computeStateOfRound(e, id) ==
    IF id \in DOMAIN e.caches.state
    THEN [st |-> e.caches.state[id], e |-> e, err |-> nil]
    ELSE IF Number(id) = 0 \/ Number(id) < finality
    THEN [st |-> ZeroState, e |-> e, err |-> nil]
    ELSE
      LET parent == e.repo[id].parent
          cp == (Number(id) \div RoundBlocks) * RoundBlocks
          hit == parent \in DOMAIN e.caches.justifier
          e0 == [e EXCEPT !.caches.justifier = Drop(@, parent)]
          extend == cp # Number(id) /\ hit
          m == getMaxBlockProposers(e0, parent, FALSE)
          js0 == IF extend THEN e.caches.justifier[parent]
                 ELSE [EmptyJustifier EXCEPT !.checkpoint = cp,
                                             !.threshold = Threshold(m.mbp),
                                             !.parentQuality = 0]
          e1 == IF extend THEN e0 ELSE m.e
          end == IF extend THEN Number(id) - 1 ELSE cp
      IN Only({ [st |-> Summarize(js),
                 e |-> [e1 EXCEPT !.caches.state = Put(@, id, Summarize(js)),
                                  !.caches.justifier = Put(@, id, js)],
                 err |-> nil] : js \in {Walk(e.repo, js0, id, end)} })

\* The next block of the straddling round reaches the repository, without a
\* vote below the activation number and with one from it on, and its state
\* is computed.
ImportRound(signer, vote) ==
    \E id \in {<<n, 0>> : n \in RoundBlocks..(2 * RoundBlocks - 1)} :
        /\ id \notin DOMAIN blocks
        /\ <<Number(id) - 1, 0>> \in DOMAIN blocks
        /\ (Number(id) < finality) = (vote = NoVote)
        /\ \E e \in {[E EXCEPT !.repo = Put(@, id, [parent |-> <<Number(id) - 1, 0>>,
                                                   signer |-> signer, vote |-> vote])]} :
           \E c \in {computeStateOfRound(e, id)} :
              /\ SetE(c.e)
              /\ ret' = Ret("computeState", id, "none", c.err, c.st)
        /\ UNCHANGED <<others, finality, mbpParam, disturbed, tally, waiters, sig>>

\* The caches have lost their entries and the state of a header of the
\* round is computed again, by the walk down to the checkpoint.
RebuildRound(id) ==
    /\ id \in DOMAIN caches.state
    /\ \E c \in {computeStateOfRound([E EXCEPT !.caches = EmptyCaches], id)} :
          /\ SetE(c.e)
          /\ ret' = Ret("computeState", id, "none", c.err, c.st)
    /\ UNCHANGED <<others, finality, mbpParam, disturbed, tally, waiters, sig>>

NextStraddle ==
    \/ \E signer \in Proposers, vote \in {COM, WIT, NoVote} : ImportRound(signer, vote)
    \/ \E id \in Ids : RebuildRound(id)

SpecStraddle == InitStraddle /\ [][NextStraddle]_vars

\* --------------------------------------------------- max block proposers

\* The engine on the trunk with empty caches, for every value the state may
\* hold under the max-block-proposers key, up to twice the uint64 range.
InitParams ==
    /\ blocks = Trunk
    /\ finality = CheckpointInterval
    /\ mbpParam \in 0..(2 * Uint64Values - 1)
    /\ finalized = GenesisID
    /\ data = [finalized |-> NoID, quality |-> Empty]
    /\ caches = EmptyCaches
    /\ casts = [init |-> FALSE, list |-> <<>>]
    /\ disturbed = FALSE
    /\ ret = Ret("NewEngine", NoID, "none", nil, nil)
    /\ tally = NoTally
    /\ waiters = <<>>
    /\ sig = ZeroSignal
    /\ OthersIdle

\* getMaxBlockProposers(sum) for the summary of a block of the repository,
\* with a state read that succeeds or fails.
GetMaxBlockProposers(id, failParams) ==
    /\ id \in DOMAIN blocks
    /\ \E m \in {getMaxBlockProposers(E, id, failParams)} :
          /\ SetE(m.e)
          /\ ret' = Ret("getMaxBlockProposers", id,
                        IF failParams THEN "params" ELSE "none", m.err, m.mbp)
    /\ UNCHANGED <<others, finality, mbpParam, disturbed, tally, waiters, sig>>

\* The mbp LRU (8 entries) loses its entries.
EvictMbp ==
    /\ caches.mbp # Empty
    /\ caches' = [caches EXCEPT !.mbp = Empty]
    /\ ret' = Ret("EvictMbp", NoID, "none", nil, nil)
    /\ UNCHANGED <<others, blocks, finality, mbpParam, finalized, data, casts, disturbed,
                   tally, waiters, sig>>

NextParams ==
    \/ \E id \in Ids, failParams \in BOOLEAN : GetMaxBlockProposers(id, failParams)
    \/ EvictMbp

SpecParams == InitParams /\ [][NextParams]_vars

\* ------------------------------------------------------------ co.Signal
\* The repository holds two Signal types of package co.  The one of
\* co/signal.go keeps a buffered channel (capacity 1) per waiter in
\* Signal.waiters and sends a TriggerInfo{Source, Time} to each; the variable
\* waiters is the sequence of the buffers, and the Time field is left out.
\* The other keeps a single channel Signal.ch that Broadcast closes and
\* replaces; the variable sig holds ch (0 is nil), the channels made so far
\* and, per waiter, the channel its closure captured.

\* Largest number of waiters of a Signal.
MaxWaiters == 2

\* Largest number of channels the single-channel Signal makes.
MaxChans == 3

Payloads == {"a", "b"}

\* The zero value of SignalData, which a receive from a closed channel yields.
NilData == [Data |-> nil]

\* make(chan SignalData, 1)
NewChan == [buf |-> <<>>, closed |-> FALSE]

\* A receive that does not block, case v := <-ch with a default: the head of
\* the buffer; the zero value when the channel is closed and drained; else
\* nothing.
Recv(c) ==
    IF Len(c.buf) > 0 THEN [got |-> TRUE, val |-> Head(c.buf), c |-> [c EXCEPT !.buf = Tail(@)]]
    ELSE IF c.closed THEN [got |-> TRUE, val |-> NilData, c |-> c]
    ELSE [got |-> FALSE, val |-> NilData, c |-> c]

SignalRet(op, val) == ret' = Ret(op, NoID, "none", nil, val)

\* A NewWaiter that hands out the channel content of the first waiter instead
\* of a channel of its own.
NewWaiterShared ==
    /\ Len(waiters) < MaxWaiters
    /\ waiters' = Append(waiters, IF Len(waiters) > 0 THEN waiters[1] ELSE <<>>)
    /\ SignalRet("NewWaiter", Len(waiters) + 1)
    /\ UNCHANGED <<others, blocks, finality, mbpParam, finalized, data, caches, casts,
                   disturbed, tally, sig>>

\* co/signal.go, Signal.NewWaiter
NewWaiter ==
    /\ Len(waiters) < MaxWaiters
    /\ waiters' = Append(waiters, <<>>)
    /\ SignalRet("NewWaiter", Len(waiters) + 1)
    /\ UNCHANGED <<others, blocks, finality, mbpParam, finalized, data, caches, casts,
                   disturbed, tally, sig>>

\* A Broadcast whose sends have no default case: it cannot complete while
\* the buffer of a waiter is full.
BroadcastBlocking(source) ==
    /\ \A i \in DOMAIN waiters : Len(waiters[i]) < 1
    /\ waiters' = [i \in DOMAIN waiters |-> Append(waiters[i], [Source |-> source])]
    /\ SignalRet("Broadcast", source)
    /\ UNCHANGED <<others, blocks, finality, mbpParam, finalized, data, caches, casts,
                   disturbed, tally, sig>>

\* co/signal.go, Signal.Broadcast: a send to every waiter whose buffer has
\* room.
Broadcast(source) ==
    /\ waiters' = [i \in DOMAIN waiters |->
                      IF Len(waiters[i]) < 1 THEN Append(waiters[i], [Source |-> source])
                      ELSE waiters[i]]
    /\ SignalRet("Broadcast", source)
    /\ UNCHANGED <<others, blocks, finality, mbpParam, finalized, data, caches, casts,
                   disturbed, tally, sig>>

\* co/signal.go, Signal.Signal: a send to the first waiter, if any.
Signal(source) ==
    /\ waiters' = [i \in DOMAIN waiters |->
                      IF i = 1 /\ Len(waiters[i]) < 1
                      THEN Append(waiters[i], [Source |-> source])
                      ELSE waiters[i]]
    /\ SignalRet("Signal", source)
    /\ UNCHANGED <<others, blocks, finality, mbpParam, finalized, data, caches, casts,
                   disturbed, tally, sig>>

\* A waiter of co/signal.go receives from its channel.
Receive(i) ==
    /\ i \in DOMAIN waiters
    /\ Len(waiters[i]) > 0
    /\ waiters' = [waiters EXCEPT ![i] = Tail(@)]
    /\ SignalRet("Receive", Head(waiters[i]))
    /\ UNCHANGED <<others, blocks, finality, mbpParam, finalized, data, caches, casts,
                   disturbed, tally, sig>>

\* The single-channel Signal.NewWaiter: the channel is made when nil, and
\* the waiter keeps a reference to it.
NewWaiterCh ==
    /\ Len(sig.refs) < MaxWaiters
    /\ sig.ch = 0 => Len(sig.chans) < MaxChans
    /\ \E s1 \in {IF sig.ch = 0
                  THEN [sig EXCEPT !.chans = Append(@, NewChan), !.ch = Len(sig.chans) + 1]
                  ELSE sig} :
          sig' = [s1 EXCEPT !.refs = Append(@, s1.ch)]
    /\ SignalRet("NewWaiterCh", Len(sig.refs) + 1)
    /\ UNCHANGED <<others, blocks, finality, mbpParam, finalized, data, caches, casts,
                   disturbed, tally, waiters>>

\* The single-channel Signal.Broadcast: the channel, if any, is closed and a
\* new one is made; data is sent to no channel.
BroadcastCh(d) ==
    /\ Len(sig.chans) < MaxChans
    /\ \E s1 \in {IF sig.ch # 0 THEN [sig EXCEPT !.chans[sig.ch].closed = TRUE] ELSE sig} :
          sig' = [s1 EXCEPT !.chans = Append(@, NewChan), !.ch = Len(sig.chans) + 1]
    /\ SignalRet("BroadcastCh", d)
    /\ UNCHANGED <<others, blocks, finality, mbpParam, finalized, data, caches, casts,
                   disturbed, tally, waiters>>

\* A waiter of the single-channel Signal receives from the channel it
\* refers to.
ReceiveCh(i) ==
    /\ i \in DOMAIN sig.refs
    /\ \E r \in {Recv(sig.chans[sig.refs[i]])} :
          /\ r.got
          /\ sig' = [sig EXCEPT !.chans[sig.refs[i]] = r.c]
          /\ SignalRet("ReceiveCh", r.val)
    /\ UNCHANGED <<others, blocks, finality, mbpParam, finalized, data, caches, casts,
                   disturbed, tally, waiters>>

NextSignal ==
    \/ NewWaiter
    \/ \E source \in Payloads : Broadcast(source)
    \/ \E source \in Payloads : Signal(source)
    \/ \E i \in 1..MaxWaiters : Receive(i)
    \/ NewWaiterCh
    \/ \E d \in Payloads : BroadcastCh(d)
    \/ \E i \in 1..MaxWaiters : ReceiveCh(i)

SpecSignal == Init /\ [][NextSignal]_vars

\* ---------------------------------------------------------------- properties

\* The ids of the branch of repo ending at tip, tip included.
RECURSIVE BranchIn(_, _)
BranchIn(repo, tip) ==
    IF tip = NoID THEN {} ELSE {tip} \cup BranchIn(repo, repo[tip].parent)

Branch(tip) == BranchIn(blocks, tip)

\* A step that is a call of CommitBlock (ret' describes the call).
CommitStep == ret'.op = "CommitBlock"

\* C1, as stated: across CommitBlock calls on headers of any branch of the
\* store, the finalized id never moves to a lower number, and moves only to a
\* descendant of the id it held.
FinalizedMonotoneAnyBranch ==
    [][/\ Number(finalized') >= Number(finalized)
       /\ finalized' = finalized \/ finalized \in BranchIn(blocks', finalized')]_vars

\* C1, amended: across CommitBlock calls on headers whose branch holds the
\* current finalized id (the headers Accepts accepts), the finalized id never
\* moves to a lower number, and moves only to a descendant of the id it held.
FinalizedMonotone ==
    [][(CommitStep /\ (finalized = GenesisID \/ finalized \in BranchIn(blocks', ret'.id)))
       => /\ Number(finalized') >= Number(finalized)
          /\ finalized' = finalized \/ finalized \in BranchIn(blocks', finalized')]_vars

\* The finalized id has advanced twice, the second time from a checkpoint to
\* its descendant on the branch of the committed header.
FinalizedAdvancedTwice ==
    /\ ret.op = "CommitBlock" /\ ret.err = nil
    /\ Number(finalized) > finality
    /\ finalized \in Branch(ret.id)
    /\ data.finalized = finalized

\* C2: Accepts(parentID) returns true exactly when the finalized id is the
\* genesis id or lies on the branch ending at parentID, and it returns the
\* repository's error when the lookup fails.
AcceptsIffOnFinalizedBranch ==
    ret.op = "Accepts" =>
        IF ret.fail = "hasBlock"
        THEN ret.err = "hasBlock" /\ ret.val = FALSE
        ELSE /\ ret.err = nil
             /\ ret.val = (finalized = GenesisID \/ finalized \in Branch(ret.id))

\* After a finalization, Accepts has refused a parent of a branch that does
\* not hold the finalized block.
AcceptsRefused ==
    /\ ret.op = "Accepts" /\ ret.err = nil /\ ret.val = FALSE
    /\ finalized # GenesisID
    /\ finalized \notin Branch(ret.id)

\* cp_i and cp_j lie on conflicting branches: neither is on the branch of
\* the other.
Conflicting(x, y) == x \notin Branch(y) /\ y \notin Branch(x)

\* C3: the casts ledger never holds two entries whose qualities differ by at
\* most one and whose checkpoints lie on conflicting branches, when every
\* packed child carries the vote GetVote returned for its parent.
NoConflictingCasts ==
    \A i, j \in 1..Len(casts.list) :
        LET a == casts.list[i]
            b == casts.list[j]
        IN (a.quality - b.quality <= 1 /\ b.quality - a.quality <= 1)
               => ~Conflicting(a.checkpoint, b.checkpoint)

\* The checkpoints on the branch of tip in repo, from the finalized id fin on
\* (from the activation checkpoint while fin is the genesis id), whose round
\* is complete below tip and has the quality q stored in d.
CheckpointsOfQuality(repo, d, tip, fin, q) ==
    {c \in BranchIn(repo, tip) :
        /\ isCheckPoint(Number(c))
        /\ Number(c) >= (IF fin = GenesisID THEN getCheckPoint(finality) ELSE Number(fin))
        /\ \E sp \in BranchIn(repo, tip) :
               /\ Number(sp) = Number(c) + CheckpointInterval - 1
               /\ sp \in DOMAIN d.quality
               /\ d.quality[sp] = q}

\* The first of them.
FirstCheckpoint(repo, d, tip, fin, q) ==
    CHOOSE c \in CheckpointsOfQuality(repo, d, tip, fin, q) :
        \A c2 \in CheckpointsOfQuality(repo, d, tip, fin, q) : Number(c) <= Number(c2)

\* The most recent justified checkpoint seen from id: the checkpoint of id's
\* round when that round is justified, else the first checkpoint from the
\* finalized id on whose stored quality is that of id's state.
RecentJCOf(id) ==
    IF caches.state[id].Justified
    THEN CHOOSE c \in Branch(id) : Number(c) = getCheckPoint(Number(id))
    ELSE FirstCheckpoint(blocks, data, id, finalized, caches.state[id].Quality)

\* Of the cast's checkpoint and jc, the one with the larger number does not
\* have the other on its branch.
CastConflicts(cast, jc) ==
    IF Number(cast.checkpoint) > Number(jc)
    THEN jc \notin Branch(cast.checkpoint)
    ELSE cast.checkpoint \notin Branch(jc)

\* C4: when the state of parentID has quality q >= 1, GetVote(parentID)
\* returns WIT if and only if a cast retained after pruning against the
\* finalized id has quality >= q - 1 and a checkpoint conflicting with the
\* most recent justified checkpoint; otherwise it returns COM.
VoteWitIffConflictingCast ==
    (/\ ret.op = "GetVote" /\ ret.err = nil
     /\ ret.id \in DOMAIN caches.state
     /\ caches.state[ret.id].Quality >= 1)
    => /\ ret.val \in {COM, WIT}
       /\ ret.val = WIT <=>
              \E i \in 1..Len(casts.list) :
                  /\ Number(casts.list[i].checkpoint) > Number(finalized)
                  /\ casts.list[i].quality >= caches.state[ret.id].Quality - 1
                  /\ CastConflicts(casts.list[i], RecentJCOf(ret.id))

\* GetVote has returned WIT.
VotedWit ==
    /\ ret.op = "GetVote" /\ ret.err = nil /\ ret.val = WIT
    /\ ret.id \in DOMAIN caches.state
    /\ caches.state[ret.id].Quality >= 1

CommittedState ==
    IF ret'.id \in DOMAIN caches'.state THEN caches'.state[ret'.id] ELSE ZeroState

\* The condition on which CommitBlock promotes a checkpoint.
CommitsRound == CommittedState.CommitAt = ret'.id /\ CommittedState.Quality > 1

\* C6: a successful CommitBlock(header) sets the finalized id if and only if
\* the computed state has CommitAt = header.id and quality > 1, and then to
\* the first checkpoint, on the branch of header.id and from the current
\* finalized id on, whose round has stored quality quality - 1; every other
\* call leaves the finalized id as it was.
FinalizedSetOnCommit ==
    [][CommitStep =>
          IF ret'.err = nil /\ CommitsRound
          THEN /\ CheckpointsOfQuality(blocks', data', ret'.id, finalized,
                                       CommittedState.Quality - 1) # {}
               /\ finalized' = FirstCheckpoint(blocks', data', ret'.id, finalized,
                                               CommittedState.Quality - 1)
          ELSE finalized' = finalized]_vars

\* A CommitBlock on the header that commits its round has moved the
\* finalized id.
FinalizedMovedOnCommit ==
    /\ ret.op = "CommitBlock" /\ ret.err = nil
    /\ ret.id \in DOMAIN caches.state
    /\ caches.state[ret.id].CommitAt = ret.id
    /\ caches.state[ret.id].Quality > 1
    /\ finalized # GenesisID
    /\ Number(finalized) = getCheckPoint(Number(ret.id)) - CheckpointInterval

\* C7: when the write of the finalized key fails, CommitBlock returns that
\* error and the finalized id in memory keeps its value, though the quality
\* of the same call may be stored; the id in memory moves only to the id
\* that has been stored.
FinalizedKeptOnPutFailure ==
    [][/\ (CommitStep /\ ret'.fail = "putFinalized")
           => /\ ret'.err = "putFinalized"
              /\ finalized' = finalized
              /\ data'.finalized = data.finalized
       /\ finalized' # finalized => data'.finalized = finalized']_vars

\* The write of the finalized key has failed in a call that stored the
\* quality of its header.
PutFinalizedFailed ==
    /\ ret.op = "CommitBlock" /\ ret.fail = "putFinalized" /\ ret.err = "putFinalized"
    /\ ret.id \in DOMAIN data.quality

\* C8: when computeState(header) fails, CommitBlock returns an error.
ComputeStateErrorReturned ==
    (ret.op = "CommitBlock" /\ ret.fail = "state") => ret.err # nil

\* The step empties the state LRU and/or the justifier cache.
EvictStep == ~disturbed /\ disturbed' /\ ret' = ret /\ caches' # caches

\* C9: the state that computeState rebuilds for a header after the state
\* LRU and/or the justifier cache have been emptied equals the state it
\* obtained incrementally before.
RebuiltStateEqualsIncremental ==
    [][EvictStep =>
          \A id \in DOMAIN caches.state :
              computeState([repo |-> blocks', finalized |-> finalized', data |-> data',
                            caches |-> caches', casts |-> casts'], id, "none").st
                  = caches.state[id]]_vars

\* The blocks of x's round on x's branch, up to x.
RoundOf(x) == {y \in Branch(x) : Number(y) >= getCheckPoint(Number(x))}

\* The signers of the COM votes of x's round up to block b.
ComVotersAt(x, b) ==
    {blocks[y].signer : y \in {z \in RoundOf(x) : Number(z) <= Number(b)
                                                  /\ blocks[z].vote = COM}}

\* The blocks of x's round at which the COM voters have reached the
\* threshold.
CommittedBlocks(x) ==
    {b \in RoundOf(x) :
        Cardinality(ComVotersAt(x, b))
            >= Threshold(IF mbpParam = 0 \/ mbpParam > InitialMaxBlockProposers
                         THEN InitialMaxBlockProposers ELSE mbpParam)}

\* C10: in the state computed for a header x, CommitAt is unset or the
\* lowest-numbered block of x's round on x's branch at which the distinct
\* COM voters reached the commit threshold.
CommitAtIsFirstCommit ==
    \A x \in DOMAIN caches.state :
        caches.state[x].CommitAt # NoID
            => /\ caches.state[x].CommitAt \in CommittedBlocks(x)
               /\ \A b \in CommittedBlocks(x) :
                      Number(caches.state[x].CommitAt) <= Number(b)

\* C11: quality is monotone non-decreasing along any branch: for every block
\* x at or above the activation number and every descendant y of x, the
\* quality of the state computed for x is at most that of the state computed
\* for y.
QualityMonotone ==
    \A x \in DOMAIN caches.state, y \in DOMAIN caches.state :
        (Number(x) >= finality /\ x \in Branch(y))
            => caches.state[x].Quality <= caches.state[y].Quality

\* A branch whose third round has become justified at its second block: the
\* quality grows inside a round, and has grown across rounds.
QualityGrew ==
    \E x \in DOMAIN caches.state, y \in DOMAIN caches.state :
        /\ Number(x) >= finality /\ x \in Branch(y) /\ x # y
        /\ getCheckPoint(Number(x)) = getCheckPoint(Number(y))
        /\ caches.state[x].Quality = 2
        /\ caches.state[y].Quality = 3

\* The state computeState holds for id: every state but the zero state is in
\* the state LRU.
StateOf(id) == IF id \in DOMAIN caches.state THEN caches.state[id] ELSE ZeroState

\* C12: Select(header) returns true whenever the quality of header's state
\* is larger than that of the best block's state and false whenever it is
\* smaller, whatever the order of the two headers; when the qualities are
\* equal it returns header.BetterThan(best).
SelectByQualityFirst ==
    (ret.op = "Select" /\ ret.err = nil) =>
        LET qNew == StateOf(ret.id).Quality
            qBest == StateOf(ret.val.best).Quality
        IN /\ qNew > qBest => ret.val.ok
           /\ qNew < qBest => ~ret.val.ok
           /\ qNew = qBest => (ret.val.ok <=> BetterThan(ret.id, ret.val.best))

\* Select has preferred a header of larger quality to a best block that is
\* better in the order of the headers.
SelectedAgainstOrder ==
    /\ ret.op = "Select" /\ ret.err = nil /\ ret.val.ok
    /\ StateOf(ret.id).Quality > StateOf(ret.val.best).Quality
    /\ BetterThan(ret.val.best, ret.id)

\* The step adds an entry to the casts ledger.
CastAppended ==
    \/ Len(casts'.list) > Len(casts.list)
    \/ \E i \in 1..Len(casts'.list) :
           \A j \in 1..Len(casts.list) : casts'.list[i] # casts.list[j]

\* C13: an entry is appended to the casts ledger only by a CommitBlock with
\* isPacking true, and only for a packed block that carries a COM vote; the
\* entry is the id at the checkpoint of the header's number on the branch of
\* header.id, with the quality of the computed state.
CastOnlyForPackedCom ==
    [][CastAppended =>
          /\ CommitStep /\ ret'.val # nil
          /\ blocks'[ret'.id].vote = COM
          /\ casts'.list[Len(casts'.list)] =
                 [checkpoint |-> CHOOSE c \in BranchIn(blocks', ret'.id) :
                                     Number(c) = getCheckPoint(Number(ret'.id)),
                  quality |-> CommittedState.Quality]]_vars

\* A step that is the second of two CommitBlock calls with the same
\* arguments: the first has succeeded, and no block has arrived.
SecondCommitStep ==
    ret.op = "CommitBlock" /\ ret.err = nil /\ ret'.op = "CommitBlock"
        /\ ret'.id = ret.id /\ ret'.val = ret.val /\ blocks' = blocks

\* C14: calling CommitBlock(h, p) a second time with the same arguments
\* leaves the finalized id as the first call left it and adds no entry to
\* the casts ledger.
CommitBlockIdempotent ==
    [][SecondCommitStep => finalized' = finalized /\ casts' = casts]_vars

\* C15: when the write of the finalized key has failed in CommitBlock(h) and
\* the engine is restarted, Finalized() is the value from before the failed
\* call, and CommitBlock(h) run again on the restarted engine sets the
\* finalized id that the failed call was about to set.
CrashRecovery ==
    [][(/\ ret.op = "CommitBlock" /\ ret.fail = "putFinalized"
        /\ ret.err = "putFinalized" /\ ret'.op = "NewEngine")
       => /\ finalized' = finalized
          /\ CommitBlockOp([repo |-> blocks', finalized |-> finalized', data |-> data',
                            caches |-> caches', casts |-> casts'],
                           ret.id, FALSE, "none").e.finalized
                 = FirstCheckpoint(blocks, data, ret.id, finalized,
                                   StateOf(ret.id).Quality - 1)]_vars

\* The order of the writes of one CommitBlock call, seen through the step
\* that fails: a failing quality write leaves the store and the finalized id
\* untouched; a failing write of the finalized key comes after the quality of
\* a store point has been stored and leaves the finalized id, stored and in
\* memory, untouched; and the id in memory moves only to the id just stored.
WritesInOrder ==
    /\ (CommitStep /\ ret'.err = "putQuality")
           => data' = data /\ finalized' = finalized
    /\ (CommitStep /\ ret'.err = "putFinalized")
           => /\ Number(ret'.id) % CheckpointInterval = CheckpointInterval - 1
                  => ret'.id \in DOMAIN data'.quality
              /\ data'.finalized = data.finalized
              /\ finalized' = finalized
    /\ finalized' # finalized => data'.finalized = finalized'

QualityStoredAtStorePoint ==
    [][CommitStep =>
          data'.quality =
              IF Number(ret'.id) % CheckpointInterval = CheckpointInterval - 1
              THEN Put(data.quality, ret'.id, CommittedState.Quality)
              ELSE data.quality]_vars

\* CommitBlock has stored quality 2 for the last block of a round of the
\* forked branch, while the blocks before it in the round have no entry.
QualityStoredForRound ==
    /\ ret.op = "CommitBlock" /\ ret.err = nil
    /\ ret.id[2] = 1
    /\ Number(ret.id) % CheckpointInterval = CheckpointInterval - 1
    /\ ret.id \in DOMAIN data.quality
    /\ data.quality[ret.id] = 2
    /\ blocks[ret.id].parent \notin DOMAIN data.quality

\* A step that is a call of one of the reader operations.
ReaderStep ==
    ret'.op \in {"Finalized", "Accepts", "Select", "GetVote"} /\ ~EvictStep

\* C18: Finalized, Accepts, Select and GetVote never change the store nor
\* the finalized id in memory: across a call of them the stored finalized
\* id, every stored quality and the finalized id in memory are unchanged;
\* only the caches may change.
ReadersKeepStore ==
    [][ReaderStep => data' = data /\ finalized' = finalized /\ blocks' = blocks]_vars

\* After a finalization and the loss of the caches, Select or GetVote has
\* computed the state of a head again and put it in the state LRU, which
\* misses a block of an earlier round.
ReaderFilledCaches ==
    /\ ret.op \in {"Select", "GetVote"} /\ ret.err = nil /\ disturbed
    /\ ret.id \in DOMAIN caches.state
    /\ \E x \in DOMAIN blocks : Number(x) >= finality /\ x \notin DOMAIN caches.state
    /\ finalized # GenesisID /\ data.finalized = finalized

\* The distinct signers of the blocks fed to the justifier under tally.
FedSigners == {tally.pool[i].signer : i \in tally.fed}

\* C19: the quality and the justified flag that a round's justifier
\* summarises depend only on the set of distinct signers fed to AddBlock,
\* not on the order of the calls nor on the number of blocks of a signer: the
\* round is justified exactly when the distinct signers reach the threshold,
\* and the quality is the parent quality plus one exactly then.
TallyBySignerSet ==
    /\ Summarize(tally.js).Justified <=> Cardinality(FedSigners) >= tally.js.threshold
    /\ Summarize(tally.js).Quality =
           tally.js.parentQuality
               + (IF Cardinality(FedSigners) >= tally.js.threshold THEN 1 ELSE 0)

\* The justifier has been fed as many blocks as the threshold asks signers,
\* two of them of one signer, and the round is not justified.
SignerCountedOnce ==
    /\ tally.js.threshold > 0
    /\ Cardinality(tally.fed) >= tally.js.threshold
    /\ Cardinality(FedSigners) < tally.js.threshold
    /\ ~Summarize(tally.js).Justified

\* Exactly one value is ready on channel c, and it carries payload.
OneReady(c, payload) ==
    /\ Recv(c).got
    /\ Recv(c).val = [Data |-> payload]
    /\ ~Recv(Recv(c).c).got

\* Across a Broadcast of co/signal.go, every waiter whose buffer was empty
\* holds exactly the TriggerInfo carrying the payload.
BroadcastFillsWaiters ==
    ret'.op = "Broadcast" =>
        \A i \in DOMAIN waiters :
            waiters[i] = <<>> => waiters'[i] = <<[Source |-> ret'.val]>>

\* Across a Broadcast of the single-channel Signal, every waiter whose
\* channel was empty has exactly one value ready, carrying the payload.
BroadcastChFillsWaiters ==
    ret'.op = "BroadcastCh" =>
        \A i \in DOMAIN sig.refs :
            sig.chans[sig.refs[i]].buf = <<>>
                => OneReady(sig'.chans[sig'.refs[i]], ret'.val)

\* The waiters of co/signal.go get the payload of a Broadcast.
BroadcastReachesWaiterList == [][BroadcastFillsWaiters]_vars

\* C20: every waiter created by NewWaiter before a Broadcast(payload) has
\* exactly one value ready on its channel once Broadcast has returned, given
\* its channel was empty, and that value carries the payload; for both
\* Signal types of package co.
BroadcastReachesWaiters ==
    [][BroadcastFillsWaiters /\ BroadcastChFillsWaiters]_vars

\* A receive that does not block finds no value on the channel of waiter i of
\* the single-channel Signal in s.
SilentCh(s, i) == ~Recv(s.chans[s.refs[i]]).got

\* A NewWaiter step leaves the new waiter with no value to receive, and a
\* waiter with no value to receive gets one only by a Signal or a Broadcast.
SilentUntilBroadcast ==
    /\ ret'.op = "NewWaiter" => waiters'[Len(waiters')] = <<>>
    /\ ret'.op = "NewWaiterCh" => SilentCh(sig', Len(sig'.refs))
    /\ \A i \in DOMAIN waiters :
          (waiters[i] = <<>> /\ waiters'[i] # <<>>) => ret'.op \in {"Broadcast", "Signal"}
    /\ \A i \in DOMAIN sig.refs :
          (SilentCh(sig, i) /\ ~SilentCh(sig', i)) => ret'.op = "BroadcastCh"

\* C21: a waiter created by NewWaiter after a Broadcast has returned does
\* not observe that broadcast: a receive that does not block finds no value
\* on its channel until a later Signal or Broadcast, for both Signal types
\* of package co.
NewWaiterMissesEarlierBroadcast == [][SilentUntilBroadcast]_vars

\* A waiter has just been created after a Broadcast whose value the first
\* waiter still holds, and the single-channel Signal has a waiter created
\* after two Broadcasts; neither has a value to receive.
WaiterCreatedAfterBroadcast ==
    /\ ret.op = "NewWaiter"
    /\ ret.val = 2
    /\ Len(waiters[1]) = 1
    /\ waiters[2] = <<>>
    /\ Len(sig.refs) = 1
    /\ sig.refs[1] = 2
    /\ sig.chans[1].closed
    /\ SilentCh(sig, 1)

\* Across a Broadcast every drained waiter has a value to receive, and a
\* waiter that receives it is drained again, for the waiters of co/signal.go.
OneValueEachBroadcast ==
    /\ ret'.op = "Broadcast" =>
          \A i \in DOMAIN waiters : waiters[i] = <<>> => Len(waiters'[i]) = 1
    /\ \A i \in DOMAIN waiters :
          (ret'.op = "Receive" /\ waiters'[i] # waiters[i]) => waiters'[i] = <<>>

\* The same for the waiters of the single-channel Signal.
OneValueEachBroadcastCh ==
    /\ ret'.op = "BroadcastCh" =>
          \A i \in DOMAIN sig.refs : SilentCh(sig, i) => ~SilentCh(sig', i)
    /\ ret'.op = "ReceiveCh" =>
          \E i \in DOMAIN sig.refs : ~SilentCh(sig, i) /\ SilentCh(sig', i)

\* A waiter of co/signal.go gets one value for every Broadcast it was
\* drained for.
WaiterListStaysSubscribed == [][OneValueEachBroadcast]_vars

\* C22: when every waiter drains its channel after each Broadcast, a waiter
\* obtained once from NewWaiter receives one value for every Broadcast: each
\* Broadcast gives a drained waiter a value, and receiving it drains the
\* waiter until the next Broadcast; for both Signal types of package co.
WaiterStaysSubscribed ==
    [][OneValueEachBroadcast /\ OneValueEachBroadcastCh]_vars

\* search_start of findCheckpointByQuality for the finalized id fin.
SearchStartOf(fin) == IF fin = GenesisID THEN getCheckPoint(finality) ELSE Number(fin)

\* n: the number of complete rounds from search_start up to tip.
RoundsFrom(tip, fin) ==
    IF Number(tip) + 1 < SearchStartOf(fin) THEN 0
    ELSE (Number(tip) + 1 - SearchStartOf(fin)) \div CheckpointInterval

\* The store point of the i-th round from search_start on the branch of tip.
StorePointOf(tip, fin, i) ==
    CHOOSE sp \in Branch(tip) :
        Number(sp) = SearchStartOf(fin) + i * CheckpointInterval + CheckpointInterval - 1

\* A quality is kept for it, in the LRU or in the store.
HasQuality(id) == id \in DOMAIN caches.quality \/ id \in DOMAIN data.quality

QualityOf(id) ==
    IF id \in DOMAIN caches.quality THEN caches.quality[id] ELSE data.quality[id]

\* The indices in [0, n) whose round's store-point quality is >= target.
Reaching(tip, fin, target) ==
    {i \in 0..(RoundsFrom(tip, fin) - 1) :
        /\ HasQuality(StorePointOf(tip, fin, i))
        /\ QualityOf(StorePointOf(tip, fin, i)) >= target}

Targets == 1..3

\* C23: findCheckpointByQuality(target, finalized, tip) returns the id at
\* number search_start + i * C on tip's branch, i being the smallest index
\* in [0, n) whose round's store-point quality is >= target; it returns an
\* error when there is no such i, when the quality at i is not target, or
\* when a lookup fails.
FindCheckpointIsFirstReaching ==
    \A tip \in DOMAIN blocks, target \in Targets :
    \A r \in {findCheckpointByQuality(E, target, finalized, tip, FALSE)} :
    \A R \in {Reaching(tip, finalized, target)} :
        LET f == findCheckpointByQuality(E, target, finalized, tip, TRUE)
            i == CHOOSE k \in R : \A k2 \in R : k <= k2
            all == \A k \in 0..(RoundsFrom(tip, finalized) - 1) :
                       HasQuality(StorePointOf(tip, finalized, k))
        IN /\ r.err = nil =>
                /\ R # {}
                /\ QualityOf(StorePointOf(tip, finalized, i)) = target
                /\ Number(r.id) = SearchStartOf(finalized) + i * CheckpointInterval
                /\ r.id \in Branch(tip)
           /\ (all /\ R # {} /\ QualityOf(StorePointOf(tip, finalized, i)) = target)
                  => r.err = nil
           /\ R = {} => r.err # nil
           /\ RoundsFrom(tip, finalized) > 0 => f.err # nil

\* While the finalized id is the genesis id, the search finds the checkpoint
\* at the activation number for quality 1 and a later one for quality 2.
FoundAtActivation ==
    /\ finalized = GenesisID
    /\ \E tip \in DOMAIN blocks :
          LET r1 == findCheckpointByQuality(E, 1, finalized, tip, FALSE)
              r2 == findCheckpointByQuality(E, 2, finalized, tip, FALSE)
          IN /\ r1.err = nil /\ Number(r1.id) = finality
             /\ r2.err = nil /\ Number(r2.id) > finality

\* The store points with a stored quality.
StoredPoints == {sp \in DOMAIN data.quality : getStorePoint(Number(sp)) = Number(sp)}

\* sp closes the round after the one psp closes, on one branch.
NextRound(psp, sp) ==
    /\ Number(sp) = Number(psp) + CheckpointInterval
    /\ psp \in Branch(sp)

\* C24: along any branch quality increases by at most 1 per round: the
\* quality stored at the store point of a round is the one stored at the
\* store point of the round before when the round is not justified and one
\* more when it is, so the first store point on a branch whose quality
\* reaches a target has exactly that quality.
QualityStepsByOne ==
    /\ \A psp \in StoredPoints, sp \in StoredPoints :
          NextRound(psp, sp) =>
              /\ data.quality[sp] - data.quality[psp] \in {0, 1}
              /\ (Number(sp) < finality \/ sp \in DOMAIN caches.state) =>
                     data.quality[sp] =
                         data.quality[psp] + (IF StateOf(sp).Justified THEN 1 ELSE 0)
    /\ \A sp \in StoredPoints, target \in Targets :
          (/\ data.quality[sp] >= target
           /\ \A x \in Branch(sp) :
                  (getStorePoint(Number(x)) = Number(x) /\ x # sp)
                      => x \in StoredPoints /\ data.quality[x] < target)
              => data.quality[sp] = target

\* A branch with three rounds from the activation number on: the second is
\* not justified and stores the quality of the first, the third is justified
\* and stores one more.
QualityKeptThenRaised ==
    \E a \in StoredPoints, b \in StoredPoints, c \in StoredPoints :
        /\ Number(a) >= finality
        /\ NextRound(a, b) /\ NextRound(b, c)
        /\ ~StateOf(b).Justified /\ data.quality[b] = data.quality[a]
        /\ StateOf(c).Justified /\ data.quality[c] = data.quality[b] + 1

\* C25: GetVote takes as most recent justified checkpoint the id at
\* checkpoint(block_number(parent_id)) on parent_id's branch when the state
\* of parent_id is justified, and findCheckpointByQuality(quality, finalized,
\* parent_id) otherwise; an error of either lookup makes GetVote return that
\* error together with WIT.
RecentJCByStateOrSearch ==
    /\ \A parent \in DOMAIN caches.state :
       \A jc \in {recentJC(E, caches.state[parent], parent, FALSE)} :
          caches.state[parent].Quality >= 1 =>
             IF caches.state[parent].Justified
             THEN /\ jc.err = nil
                  /\ jc.id \in Branch(parent)
                  /\ Number(jc.id) = getCheckPoint(Number(parent))
             ELSE /\ jc.err = nil =>
                        jc.id = FirstCheckpoint(blocks, data, parent, finalized,
                                                caches.state[parent].Quality)
                  /\ CheckpointsOfQuality(blocks, data, parent, finalized,
                                          caches.state[parent].Quality) = {}
                        => jc.err # nil
    /\ (ret.op = "GetVote" /\ ret.fail = "jc") => (ret.err = "jc" /\ ret.val = WIT)
    /\ (/\ ret.op = "GetVote" /\ ret.fail = "none" /\ ret.err # nil
        /\ ret.id \in DOMAIN caches.state
        /\ caches.state[ret.id].Quality >= 1) => ret.val = WIT

\* GetVote has returned the error of the search by quality, with WIT, for a
\* parent whose round is not justified.
VoteLookupFailed ==
    /\ ret.op = "GetVote" /\ ret.fail = "jc" /\ ret.err = "jc" /\ ret.val = WIT
    /\ ret.id \in DOMAIN caches.state
    /\ ~caches.state[ret.id].Justified
    /\ caches.state[ret.id].Quality >= 1

\* computeState returns the zero state, and no error, for every header of
\* number 0 or below the activation number.
ZeroStateBelowActivation ==
    \A id \in DOMAIN blocks :
        (Number(id) = 0 \/ Number(id) < finality) =>
            /\ computeState(E, id, "none").st = ZeroState
            /\ computeState(E, id, "none").err = nil

\* C26: computeState(header) returns the zero state for every header with
\* number 0 or below the activation number, and after the call the state
\* cache holds that zero state under header.id (here after a CommitBlock of
\* such a header, which calls computeState first).
ZeroStateCached ==
    /\ ZeroStateBelowActivation
    /\ (/\ ret.op = "CommitBlock" /\ ret.err = nil
        /\ (Number(ret.id) = 0 \/ Number(ret.id) < finality))
       => /\ ret.id \in DOMAIN caches.state
          /\ caches.state[ret.id] = ZeroState

\* The justifiers of the straddling round have tallied only blocks carrying
\* a vote.
OnlyVotesTallied ==
    \A id \in DOMAIN caches.justifier :
        \A h \in caches.justifier[id].seen : blocks[h].vote # NoVote

\* C27: a round that straddles activation (one holding a block without a
\* vote, below the activation number) never becomes justified: for every
\* header of such a round computeState reports justified = false and the
\* previous quality, however many distinct signers produced its
\* vote-carrying blocks.
StraddlingRoundNeverJustified ==
    \A id \in DOMAIN caches.state :
        /\ ~caches.state[id].Justified
        /\ caches.state[id].Quality = 0

\* A failed quality write: the error is returned, the quality LRU gains no
\* entry for the header, and neither the store nor the finalized id changes;
\* an id enters the quality LRU only when the store holds its quality.
QualityPutThenCache ==
    /\ (CommitStep /\ ret'.fail = "putQuality") =>
           /\ ret'.err = "putQuality"
           /\ ret'.id \in DOMAIN caches'.quality => ret'.id \in DOMAIN caches.quality
           /\ finalized' = finalized
           /\ data' = data
    /\ \A id \in DOMAIN caches'.quality :
           id \notin DOMAIN caches.quality =>
               /\ id \in DOMAIN data'.quality
               /\ caches'.quality[id] = data'.quality[id]

\* C28: if persisting a quality entry fails in CommitBlock, the call returns
\* the error, the quality LRU gains no entry for header.id and the finalized
\* id is unchanged; the LRU entry is added only after the put has succeeded.
QualityLRUNotPoisoned ==
    /\ [][QualityPutThenCache]_vars
    /\ [](\A id \in DOMAIN caches.quality :
              id \in DOMAIN data.quality /\ caches.quality[id] = data.quality[id])

\* The quality write has failed for the last block of a round whose state
\* was computed: the state is cached, the quality is neither stored nor in
\* the LRU.
QualityWriteFailed ==
    /\ ret.op = "CommitBlock" /\ ret.fail = "putQuality" /\ ret.err = "putQuality"
    /\ ret.id \in DOMAIN caches.state
    /\ caches.state[ret.id].Quality >= 1
    /\ ret.id \notin DOMAIN caches.quality
    /\ ret.id \notin DOMAIN data.quality

\* C29: on construction the finalized id is the id stored under the
\* finalized key when there is one and the genesis id when the key is not
\* found; any other error of the read makes NewEngine fail without returning
\* an engine.
FinalizedLoadedOnConstruction ==
    [][ret'.op = "NewEngine" =>
          IF ret'.fail = "get"
          THEN ret'.err = "get" /\ ret'.val = nil
          ELSE /\ ret'.err = nil /\ ret'.val = "engine"
               /\ finalized' = (IF data.finalized = NoID THEN GenesisID
                                ELSE data.finalized)
               /\ data' = data]_vars

\* An engine has been constructed on a store that holds a finalized id: its
\* finalized id is the stored one, and its caches are empty.
ConstructedFromStore ==
    /\ ret.op = "NewEngine" /\ ret.err = nil
    /\ data.finalized # NoID
    /\ finalized = data.finalized
    /\ caches = EmptyCaches

\* The value used is in [1, INITIAL_MAX_BLOCK_PROPOSERS], and a value is
\* cached for a block id only by a call whose read succeeded.
MbpInRange ==
    /\ [](/\ \A id \in DOMAIN caches.mbp : caches.mbp[id] \in 1..InitialMaxBlockProposers
          /\ (ret.op = "getMaxBlockProposers" /\ ret.err = nil)
                 => ret.val \in 1..InitialMaxBlockProposers)
    /\ [][ret'.op = "getMaxBlockProposers" =>
             IF ret'.err = nil
             THEN caches'.mbp = Put(caches.mbp, ret'.id, ret'.val)
             ELSE caches' = caches]_vars

\* The value used is the stored one when the stored value fits a uint64 and
\* is in range, and the bound when it fits and is 0 or above the bound.
MbpClampedWithinUint64 ==
    (ret.op = "getMaxBlockProposers" /\ ret.err = nil /\ mbpParam < Uint64Values)
        => ret.val = (IF mbpParam \in 1..InitialMaxBlockProposers THEN mbpParam
                      ELSE InitialMaxBlockProposers)

\* C30: the max-block-proposers value used for the threshold is always in
\* [1, INITIAL_MAX_BLOCK_PROPOSERS]: it is the value read from state when
\* that value is in range, and INITIAL_MAX_BLOCK_PROPOSERS when the stored
\* value is 0 or exceeds the bound; a value is cached per block id only
\* when the read succeeded.
MbpClamped ==
    /\ MbpInRange
    /\ []((ret.op = "getMaxBlockProposers" /\ ret.err = nil)
              => ret.val = (IF mbpParam \in 1..InitialMaxBlockProposers THEN mbpParam
                            ELSE InitialMaxBlockProposers))

\* C31: in every reachable state the finalized id is the genesis id or the id
\* of a checkpoint block, one whose number is divisible by the checkpoint
\* interval; the engine starts from the genesis id.
FinalizedIsCheckpoint ==
    \/ finalized = GenesisID
    \/ /\ finalized \in DOMAIN blocks
       /\ Number(finalized) % CheckpointInterval = 0

\* The finalized id has moved to the checkpoint of the third round of the
\* forked branch.
FinalizedAtForkCheckpoint ==
    /\ finalized # GenesisID
    /\ finalized[2] = 1
    /\ Number(finalized) = 2 * CheckpointInterval

\* ------------------------------------------------ view-based consensus
\* bft.Consensus keeps the state vector [NV, PP, PC, CM] of a node and
\* updates it from the views of the blocks the node receives.  A
\* thor.Bytes32 is a pair: <<n, br>> with br >= 0 is the id of block n of
\* branch br, and <<n, -1>> is the value whose first four bytes hold n and
\* whose other bytes are zero, so that <<0, -1>> is the zero value.

\* The nodes that sign blocks.
Nodes == {"n1", "n2", "n3"}

\* f and QC = N - f, for N = 4 block proposers.
MaxByzantineNodes == 1

QC == 4 - MaxByzantineNodes

\* A heavy block carries at least MinNumBackers backer signatures.
MinNumBackers == 1

\* Largest number of blocks a node receives.
MaxReceived == 3

\* Largest block number of the blocks a node receives.
MaxHeight == 2

\* Largest number, and largest block number, of the blocks a node receives
\* when every block carries a quorum of signatures.
MaxQuorumBlocks == 4

ZeroBytes32 == <<0, 0 - 1>>

\* GenNVForFirstBlock: the NV of the first block of the view starting at num.
GenNVForFirstBlock(num) == <<num, 0 - 1>>

\* isValidFirstNV: NV holds the block's own number and nothing else.
isValidFirstNV(id, h) == Number(h.nv) = Number(id) /\ h.nv[2] = 0 - 1

\* len(blk.BackerSignatures()) >= MinNumBackers.
Heavy(h) == Cardinality(h.backers) >= MinNumBackers

\* getSigners: the backers recovered from the backer signatures, and the
\* proposer.
getSigners(h) == h.backers \cup {h.proposer}

\* getNV: the NV of a header, the header's own id for the first block of a view.
getNV(id, h) == IF Number(h.nv) = Number(id) THEN id ELSE h.nv

\* getTimestamp: summary.Header.Timestamp() of a block of the repository.
getTimestamp(repo, id) == repo[id].ts

\* Repository.IfConflict(a, b): a lookup error when either block is missing;
\* otherwise the two blocks conflict when the lower one is not on the branch
\* of the higher one.
IfConflict(repo, a, b) ==
    IF a \notin DOMAIN repo \/ b \notin DOMAIN repo
    THEN [ok |-> FALSE, err |-> "summary"]
    ELSE [ok |-> IF Number(a) <= Number(b) THEN ~HasBlock(repo, b, a)
                 ELSE ~HasBlock(repo, a, b),
          err |-> nil]

\* The numbers of the blocks the loop of newView visits: from first up to the
\* head, stopping before the first later block whose NV is not the id of the
\* first block.
ViewNumbers(repo, head, first) ==
    {i \in first..Number(head) :
        \A j \in (first + 1)..i :
            repo[GetBlockID(repo, head, j)].nv = GetBlockID(repo, head, first)}

\* newView(branch, first): the signers of the heavy blocks of the view (nv),
\* the signers of each non-zero PC (pc), and whether some PC of the view is
\* not on the branch (conflict).  first = 0 is the empty view; a first block
\* that is missing, not heavy or has no valid first NV is an error.
newView(repo, head, first) ==
    IF first = 0
    THEN [first |-> 0, head |-> head, nv |-> {}, pc |-> <<>>, conflict |-> FALSE, err |-> nil]
    ELSE IF first > Number(head)
    THEN [first |-> first, head |-> head, nv |-> {}, pc |-> <<>>, conflict |-> FALSE,
          err |-> "notFound"]
    ELSE LET firstID == GetBlockID(repo, head, first)
             heavy == {id \in {GetBlockID(repo, head, i) : i \in ViewNumbers(repo, head, first)} :
                          Heavy(repo[id])}
             pcs == {repo[id].pc : id \in heavy} \ {ZeroBytes32}
         IN  IF ~Heavy(repo[firstID])
             THEN [first |-> first, head |-> head, nv |-> {}, pc |-> <<>>,
                   conflict |-> FALSE, err |-> "notHeavy"]
             ELSE IF ~isValidFirstNV(firstID, repo[firstID])
             THEN [first |-> first, head |-> head, nv |-> {}, pc |-> <<>>,
                   conflict |-> FALSE, err |-> "invalidNV"]
             ELSE [first |-> first, head |-> head,
                   nv |-> UNION {getSigners(repo[id]) : id \in heavy},
                   pc |-> [p \in pcs |->
                              UNION {getSigners(repo[id]) : id \in {x \in heavy : repo[x].pc = p}}],
                   conflict |-> \E p \in pcs : ~HasBlock(repo, head, p),
                   err |-> nil]

\* view.getFirstBlockID.
getFirstBlockID(repo, v) == GetBlockID(repo, v.head, v.first)

\* view.hasConflictPC.
hasConflictPC(v) == v.conflict

\* view.hasQCForNV.
hasQCForNV(v) == Cardinality(v.nv) >= QC

\* view.hasQCForPC ranges over a map: it returns any of the PCs signed by at
\* least QC signers, and (false, zero) when there is none.
hasQCForPC(v) ==
    IF \E p \in DOMAIN v.pc : Cardinality(v.pc[p]) >= QC
    THEN {[ok |-> TRUE, cm |-> p] : p \in {x \in DOMAIN v.pc : Cardinality(v.pc[x]) >= QC}}
    ELSE {[ok |-> FALSE, cm |-> ZeroBytes32]}

\* view.getNumSigOnPC.
getNumSigOnPC(v, pc) == IF pc \in DOMAIN v.pc THEN Cardinality(v.pc[pc]) ELSE 0

\* NewConsensus(repo, lastFinalized, nodeAddress) over a repository holding
\* the genesis block: state[CM] is lastFinalized, lastSigned is the genesis
\* block, prevBestBlock is the best block; rtpc is the id of the current RTPC
\* (zero for none), expired is hasLastSignedpPCExpired, updated the blocks
\* Update has been called with.
GenesisHeader ==
    [parent |-> NoID, nv |-> ZeroBytes32, pc |-> ZeroBytes32, cm |-> ZeroBytes32,
     proposer |-> "n1", backers |-> {}, ts |-> 0]

NewConsensus ==
    [repo |-> (GenesisID :> GenesisHeader),
     best |-> GenesisID,
     state |-> [NV |-> ZeroBytes32, PP |-> ZeroBytes32, PC |-> ZeroBytes32, CM |-> GenesisID],
     rtpc |-> ZeroBytes32,
     expired |-> FALSE,
     lastSigned |-> GenesisID,
     prevBest |-> GenesisID,
     updated |-> {}]

\* The local node.
nodeAddress == "n1"

\* Consensus.UpdateLastSignedPC(b): b becomes lastSigned, unexpired, when it
\* has a PC, is later than lastSigned and is heavy.
UpdateLastSignedPC(c, b) ==
    IF \/ c.repo[b].pc = ZeroBytes32
       \/ c.repo[b].ts <= c.repo[c.lastSigned].ts
       \/ ~Heavy(c.repo[b])
    THEN c
    ELSE [c EXCEPT !.lastSigned = b, !.expired = FALSE]

\* Consensus.IfUpdateLastSignedPC(b): b has a PC and the node signed it.
IfUpdateLastSignedPC(c, b) ==
    /\ c.repo[b].pc # ZeroBytes32
    /\ nodeAddress \in getSigners(c.repo[b])

\* Consensus.Update, "update CM": a PC with a quorum in a view without
\* conflict is committed and state[PC] is emptied; then the CM of the new
\* block is adopted when it is higher and committed.updateObserved reports
\* enough observations (observed).  pick is the answer of hasQCForPC.
updateCM(c, h, v, pick, observed) ==
    LET local == pick.ok /\ ~hasConflictPC(v)
        c1 == IF local
              THEN [c EXCEPT !.state.CM = pick.cm, !.state.PC = ZeroBytes32]
              ELSE c
        seen == Number(h.cm) > Number(c1.state.CM) /\ observed
        c2 == IF seen THEN [c1 EXCEPT !.state.CM = h.cm] ELSE c1
    IN  [c |-> c2, err |-> nil]

\* Consensus.Update, "update PC" and "unlock pc": r is the RTPC after
\* rtpc.update; the last signed PC expires when
\* the view has a quorum of signers, none of them on that PC, and starts after
\* lastSigned; state[PC] becomes the RTPC unless the RTPC conflicts with an
\* unexpired last signed PC, and is emptied when it is not the RTPC.
updatePC(c, v, r) ==
    LET ls == c.repo[c.lastSigned]
        c1 == [c EXCEPT !.rtpc = r]
        expired == \/ c.expired
                   \/ /\ ls.pc # ZeroBytes32
                      /\ hasQCForNV(v)
                      /\ getNumSigOnPC(v, ls.pc) = 0
                      /\ getTimestamp(c.repo, getFirstBlockID(c.repo, v)) > ls.ts
        c2 == [c1 EXCEPT !.expired = expired]
        cf == IF r # ZeroBytes32 /\ ls.pc # ZeroBytes32
              THEN IfConflict(c.repo, r, ls.pc)
              ELSE [ok |-> FALSE, err |-> nil]
        ifUpdatePC == r # ZeroBytes32 /\ (ls.pc = ZeroBytes32 \/ ~cf.ok \/ expired)
        c3 == IF ifUpdatePC THEN [c2 EXCEPT !.state.PC = r] ELSE c2
        c4 == IF r # ZeroBytes32 /\ c3.state.PC = r THEN c3
              ELSE [c3 EXCEPT !.state.PC = ZeroBytes32]
    IN  IF cf.err # nil THEN [c |-> c2, err |-> cf.err]
        ELSE [c |-> c4, err |-> nil]

\* updatePPNV without the test that the new block is the best block.
updatePPNVOfAnyBlock(c, b, h, v, best) ==
    LET canonical == TRUE
        c1 == IF canonical /\ hasQCForNV(v) /\ ~hasConflictPC(v)
              THEN [c EXCEPT !.state.PP = getFirstBlockID(c.repo, v)]
              ELSE c
        nv == getNV(b, h)
        old == c1.state.NV
        known == old \in DOMAIN c.repo /\ nv \in DOMAIN c.repo
        byTime == IF ~known THEN old
                  ELSE IF getTimestamp(c.repo, nv) > getTimestamp(c.repo, old) THEN nv
                  ELSE IF h.parent # c.prevBest THEN b
                  ELSE old
        w == newView(c.repo, h.parent, Number(c.repo[h.parent].nv))
        c2 == IF ~canonical THEN c1
              ELSE IF old = ZeroBytes32 THEN [c1 EXCEPT !.state.NV = nv]
              ELSE IF ~known \/ w.err # nil THEN [c1 EXCEPT !.state.NV = byTime]
              ELSE IF hasQCForNV(w) THEN [c1 EXCEPT !.state.NV = b]
              ELSE [c1 EXCEPT !.state.NV = byTime]
        err2 == IF ~canonical \/ old = ZeroBytes32 THEN nil
                ELSE IF ~known THEN "summary"
                ELSE w.err
        cf == IF c2.state.NV # ZeroBytes32 /\ c2.state.PP # ZeroBytes32
              THEN IfConflict(c.repo, c2.state.NV, c2.state.PP)
              ELSE [ok |-> FALSE, err |-> nil]
        c3 == IF cf.ok THEN [c2 EXCEPT !.state.PP = ZeroBytes32] ELSE c2
    IN  IF err2 # nil THEN [c |-> c2, err |-> err2]
        ELSE IF cf.err # nil THEN [c |-> c2, err |-> cf.err]
        ELSE [c |-> [c3 EXCEPT !.prevBest = best], err |-> nil]

\* Consensus.Update, "Update pp", "Update nv" and "unlock pp", for the new
\* block b with header h, whose view is v; best is the best block.
updatePPNV(c, b, h, v, best) ==
    LET canonical == best = b
        c1 == IF canonical /\ hasQCForNV(v) /\ ~hasConflictPC(v)
              THEN [c EXCEPT !.state.PP = getFirstBlockID(c.repo, v)]
              ELSE c
        nv == getNV(b, h)
        old == c1.state.NV
        known == old \in DOMAIN c.repo /\ nv \in DOMAIN c.repo
        byTime == IF ~known THEN old
                  ELSE IF getTimestamp(c.repo, nv) > getTimestamp(c.repo, old) THEN nv
                  ELSE IF h.parent # c.prevBest THEN b
                  ELSE old
        w == newView(c.repo, h.parent, Number(c.repo[h.parent].nv))
        c2 == IF ~canonical THEN c1
              ELSE IF old = ZeroBytes32 THEN [c1 EXCEPT !.state.NV = nv]
              ELSE IF ~known \/ w.err # nil THEN [c1 EXCEPT !.state.NV = byTime]
              ELSE IF hasQCForNV(w) THEN [c1 EXCEPT !.state.NV = b]
              ELSE [c1 EXCEPT !.state.NV = byTime]
        err2 == IF ~canonical \/ old = ZeroBytes32 THEN nil
                ELSE IF ~known THEN "summary"
                ELSE w.err
        cf == IF c2.state.NV # ZeroBytes32 /\ c2.state.PP # ZeroBytes32
              THEN IfConflict(c.repo, c2.state.NV, c2.state.PP)
              ELSE [ok |-> FALSE, err |-> nil]
        c3 == IF cf.ok THEN [c2 EXCEPT !.state.PP = ZeroBytes32] ELSE c2
    IN  IF err2 # nil THEN [c |-> c2, err |-> err2]
        ELSE IF cf.err # nil THEN [c |-> c2, err |-> cf.err]
        ELSE [c |-> [c3 EXCEPT !.prevBest = best], err |-> nil]

\* Consensus.Update(newBlock) for the block b of the repository: nothing for
\* a block that is not heavy; otherwise the view of b is built and CM, PC, PP
\* and NV are updated in that order, an error returning at once.
Update(c, b, pick, observed, r) ==
    LET h == c.repo[b]
    IN  IF ~Heavy(h) THEN [c |-> c, err |-> nil]
        ELSE LET v == newView(c.repo, b, Number(h.nv))
             IN  IF v.err # nil THEN [c |-> c, err |-> v.err]
                 ELSE LET s1 == updateCM(c, h, v, pick, observed)
                      IN  IF s1.err # nil THEN s1
                          ELSE LET s2 == updatePC(s1.c, v, r)
                               IN  IF s2.err # nil THEN s2
                                   ELSE updatePPNV(s2.c, b, h, v, c.best)

\* The blocks a node receives: block n of branch br, both branches leaving
\* the genesis block, with timestamp n + br.
ParentOf(n, br) == IF n = 1 THEN GenesisID ELSE <<n - 1, br>>

\* The proposer and the backers of a received block.
SignerSets ==
    {[proposer |-> "n1", backers |-> {}],
     [proposer |-> "n3", backers |-> {"n2"}],
     [proposer |-> "n1", backers |-> {"n2", "n3"}]}

\* The PC and the CM of a received block: zero or the id of a lower block.
HeaderPCs(n) == {ZeroBytes32} \cup ((1..(n - 1)) \X Branches)

HeaderCMs(n, br) == {ZeroBytes32} \cup {<<k, br>> : k \in 1..(n - 1)}

\* repo.AddBlock(b, nil) for a new block whose parent the repository holds;
\* its NV opens a view or continues the view of its parent.
ConsAddBlock(n, br, sg, nv, pc, cm) ==
    /\ <<n, br>> \notin DOMAIN cons.repo
    /\ ParentOf(n, br) \in DOMAIN cons.repo
    /\ nv \in {GenNVForFirstBlock(n), getNV(ParentOf(n, br), cons.repo[ParentOf(n, br)])}
    /\ pc \in HeaderPCs(n)
    /\ cm \in HeaderCMs(n, br)
    /\ cons' = [cons EXCEPT !.repo = Put(@, <<n, br>>,
                   [parent |-> ParentOf(n, br), nv |-> nv, pc |-> pc, cm |-> cm,
                    proposer |-> sg.proposer, backers |-> sg.backers, ts |-> n + br])]
    /\ ret' = Ret("AddBlock", <<n, br>>, "none", nil, nil)
    /\ UNCHANGED <<blocks, finality, mbpParam, finalized, data, caches, casts,
                   disturbed, tally, waiters, sig, node, adopt, solo, opt>>

\* The blocks of the repository without a child.
Heads(repo) == {b \in DOMAIN repo : \A x \in DOMAIN repo : repo[x].parent # b}

\* The blocks below b on its branch, the genesis block left out.
Ancestors(repo, b) == {GetBlockID(repo, b, k) : k \in 1..(Number(b) - 1)}

\* A node learns of the head b of a branch, once: repo.SetBestBlockID(b) when b is
\* the new best block, UpdateLastSignedPC(b) when the node signed b, then
\* Update(b).  observed is the answer of committed.updateObserved, which
\* counts the blocks that carry a CM, and r the RTPC that
\* rtpc.updateLastCommitted and rtpc.update leave: the one before, none, or a
\* block below b.
ConsUpdate(b, isBest, isSigner, observed, r) ==
    /\ b \in Heads(cons.repo) \ ({GenesisID} \cup cons.updated)
    /\ observed => cons.repo[b].cm # ZeroBytes32
    /\ r \in {cons.rtpc, ZeroBytes32} \cup Ancestors(cons.repo, b)
    /\ \E c0 \in {[cons EXCEPT !.best = IF isBest THEN b ELSE @]} :
          /\ isSigner => IfUpdateLastSignedPC(c0, b)
          /\ \E c1 \in {IF isSigner THEN UpdateLastSignedPC(c0, b) ELSE c0} :
             \E v \in {newView(c1.repo, b, Number(c1.repo[b].nv))} :
             \E pick \in (IF v.err = nil THEN hasQCForPC(v)
                          ELSE {[ok |-> FALSE, cm |-> ZeroBytes32]}) :
             \E out \in {Update(c1, b, pick, observed, r)} :
                /\ cons' = [out.c EXCEPT !.updated = @ \cup {b}]
                /\ ret' = Ret("Update", b, "none", out.err, nil)
    /\ UNCHANGED <<blocks, finality, mbpParam, finalized, data, caches, casts,
                   disturbed, tally, waiters, sig, node, adopt, solo, opt>>

InitBFT ==
    /\ InitEngine
    /\ tally = NoTally
    /\ waiters = <<>>
    /\ sig = ZeroSignal
    /\ cons = NewConsensus
    /\ node = NoNode
    /\ adopt = NoAdoption
    /\ solo = NoSolo
    /\ opt = NoOptimizer

NextBFT ==
    \/ \E n \in 1..MaxHeight, br \in Branches, sg \in SignerSets :
       \E nv \in {GenNVForFirstBlock(n)} \cup
                  {getNV(ParentOf(n, br), cons.repo[p]) : p \in {ParentOf(n, br)} \cap DOMAIN cons.repo},
          pc \in HeaderPCs(n), cm \in {ZeroBytes32} :
           /\ Cardinality(DOMAIN cons.repo) <= MaxReceived
           /\ ConsAddBlock(n, br, sg, nv, pc, cm)
    \/ \E b \in Heads(cons.repo) \ ({GenesisID} \cup cons.updated), isBest \in BOOLEAN, isSigner \in BOOLEAN,
          observed \in BOOLEAN :
       \E r \in {cons.rtpc, ZeroBytes32} \cup Ancestors(cons.repo, b) :
           ConsUpdate(b, isBest, isSigner, observed, r)

SpecBFT == InitBFT /\ [][NextBFT]_vars

\* Every received block is signed by the node and a quorum of backers and
\* opens a view of its own; its PC is zero, a first block or the block two
\* below it, its CM zero or its parent; every block the node updates with is
\* the best block.
QuorumPCs(n, br) ==
    {ZeroBytes32} \cup {<<k, x>> \in HeaderPCs(n) : k = 1 \/ (x = br /\ k = n - 2)}

QuorumCMs(n, br) == {ZeroBytes32} \cup {<<k, x>> \in HeaderCMs(n, br) : k = n - 1}

NextQuorum ==
    \/ \E n \in 1..MaxQuorumBlocks, br \in Branches,
          sg \in {s \in SignerSets : Cardinality(getSigners(s)) >= QC} :
       \E pc \in QuorumPCs(n, br), cm \in QuorumCMs(n, br) :
           /\ Cardinality(DOMAIN cons.repo) <= MaxQuorumBlocks
           /\ ConsAddBlock(n, br, sg, GenNVForFirstBlock(n), pc, cm)
    \/ \E b \in Heads(cons.repo) \ ({GenesisID} \cup cons.updated),
          isSigner \in BOOLEAN, observed \in BOOLEAN :
       \E r \in {cons.rtpc, ZeroBytes32} \cup Ancestors(cons.repo, b) :
           ConsUpdate(b, TRUE, isSigner, observed, r)

SpecQuorum == InitBFT /\ [][NextQuorum]_vars

\* ---------------------------------------------------------------- C32
\* Update(b) has returned nil for a heavy block b.
UpdateDone ==
    /\ ret.op = "Update"
    /\ ret.err = nil
    /\ Heavy(cons.repo[ret.id])

\* The RTPC conflicts with the PC of lastSigned, which has not expired.
RTPCConflictsWithLastSigned ==
    /\ cons.repo[cons.lastSigned].pc # ZeroBytes32
    /\ ~cons.expired
    /\ cons.rtpc # ZeroBytes32
    /\ IfConflict(cons.repo, cons.rtpc, cons.repo[cons.lastSigned].pc).ok

\* C32: after every Update, state[PC] is empty or the id of the current RTPC,
\* and it is empty when lastSigned carries a PC that has not expired and the
\* RTPC conflicts with that PC.
NeverLocksConflictingPC ==
    UpdateDone =>
        /\ cons.state.PC \in {ZeroBytes32, cons.rtpc}
        /\ RTPCConflictsWithLastSigned => cons.state.PC = ZeroBytes32

\* ---------------------------------------------------------------- C33
\* The view of the block of the last call, in the repository after the call.
ViewAfter == newView(cons'.repo, ret'.id, Number(cons'.repo[ret'.id].nv))

\* The step is an Update that returns nil for a heavy block.
UpdateStep ==
    /\ ret'.op = "Update"
    /\ ret'.err = nil
    /\ Heavy(cons'.repo[ret'.id])

\* The step is an Update of the best block whose view has a quorum of signers
\* and no PC off the branch.
UpdateOfBestWithQuorum ==
    /\ UpdateStep
    /\ cons'.best = ret'.id
    /\ hasQCForNV(ViewAfter)
    /\ ~hasConflictPC(ViewAfter)

\* state[PP] is the first block F of the view, or empty when F conflicts with
\* state[NV].
PPisFirstUnlessConflict ==
    \E F \in {getFirstBlockID(cons'.repo, ViewAfter)} :
        cons'.state.PP = IF IfConflict(cons'.repo, cons'.state.NV, F).ok
                         THEN ZeroBytes32 ELSE F

\* An Update of a block that is not the best block leaves state[NV] alone and
\* assigns nothing to state[PP], which is only emptied when it conflicts with
\* state[NV].
NotBestKeepsNVAndPP ==
    UpdateStep /\ cons'.best # ret'.id =>
        /\ cons'.state.NV = cons.state.NV
        /\ cons'.state.PP =
               IF /\ cons.state.NV # ZeroBytes32
                  /\ cons.state.PP # ZeroBytes32
                  /\ IfConflict(cons.repo, cons.state.NV, cons.state.PP).ok
               THEN ZeroBytes32 ELSE cons.state.PP

\* state[NV] is F when it was empty, the id of the new block when the view of
\* its parent already has a quorum of signers, and otherwise F, the id of the
\* new block or the value before.
NVFollowsView ==
    \E F \in {getFirstBlockID(cons'.repo, ViewAfter)} :
    \E w \in {newView(cons'.repo, cons'.repo[ret'.id].parent,
                      Number(cons'.repo[cons'.repo[ret'.id].parent].nv))} :
        /\ cons.state.NV = ZeroBytes32 => cons'.state.NV = F
        /\ cons.state.NV # ZeroBytes32 /\ hasQCForNV(w) => cons'.state.NV = ret'.id
        /\ cons'.state.NV \in {F, ret'.id, cons.state.NV}

\* C33 as amended: an Update of the heavy best block b whose view, of first
\* block F, has a quorum of signers and every PC on the branch leaves
\* state[PP] = F, or empty when F conflicts with state[NV], and state[NV] = F
\* when it was empty, b when the view of the parent of b already has a quorum,
\* and F, b or the value before otherwise; an Update of a block that is not
\* the best block assigns neither state[NV] nor state[PP].
UpdateSetsPPAndNV ==
    [][/\ UpdateOfBestWithQuorum => PPisFirstUnlessConflict /\ NVFollowsView
       /\ NotBestKeepsNVAndPP]_vars

\* C33 as stated: after such an Update state[NV] is F.
UpdateSetsPPAndNVToFirst ==
    [][/\ UpdateOfBestWithQuorum =>
              /\ PPisFirstUnlessConflict
              /\ cons'.state.NV = getFirstBlockID(cons'.repo, ViewAfter)
       /\ NotBestKeepsNVAndPP]_vars

\* An Update of the best block has set state[PP] to the first block of a view
\* with a quorum and started a new view at the block itself.
NewViewAfterQuorum ==
    /\ UpdateDone
    /\ cons.best = ret.id
    /\ \E v \in {newView(cons.repo, ret.id, Number(cons.repo[ret.id].nv))} :
          /\ hasQCForNV(v)
          /\ ~hasConflictPC(v)
          /\ cons.state.PP = getFirstBlockID(cons.repo, v)
          /\ cons.state.NV = ret.id
          /\ cons.state.PP # ret.id

\* ---------------------------------------------------------------- C34
\* C34: the block number of state[CM] never decreases, whatever the sequence
\* of Update calls.
CMNeverDecreases ==
    [][Number(cons'.state.CM) >= Number(cons.state.CM)]_vars

\* ---------------------------------------------------------------- C35
\* The waiters whose channel is ready in ws.
Ready(ws) == {i \in DOMAIN ws : Len(ws[i]) > 0}

\* C35: whenever a registered waiter has an empty channel, a call of
\* Signal.Signal makes the channel of exactly one waiter ready.
SignalWakesOne ==
    [][ret'.op = "Signal" /\ Ready(waiters) # DOMAIN waiters =>
           Cardinality(Ready(waiters') \ Ready(waiters)) = 1]_vars

\* ---------------------------------------------------------------- C36
\* Broadcast leaves a full channel as it is and puts the value in every
\* other one; Signal does so for the first waiter only.
FullDropsOthersReceive ==
    /\ ret'.op = "Broadcast" =>
           waiters' = [i \in DOMAIN waiters |->
                          IF Len(waiters[i]) > 0 THEN waiters[i]
                          ELSE <<[Source |-> ret'.val]>>]
    /\ ret'.op = "Signal" =>
           waiters' = [i \in DOMAIN waiters |->
                          IF i > 1 \/ Len(waiters[i]) > 0 THEN waiters[i]
                          ELSE <<[Source |-> ret'.val]>>]

\* C36: with waiters that may never read, Signal and Broadcast can always
\* complete, every waiter channel holds at most one pending value, and a value
\* sent to a full channel is dropped for that waiter while the other waiters
\* receive it.
SignalNeverBlocks ==
    /\ [](\A i \in DOMAIN waiters : Len(waiters[i]) <= 1)
    /\ [](\A source \in Payloads : ENABLED Broadcast(source) /\ ENABLED Signal(source))
    /\ [][FullDropsOthersReceive]_vars

\* A Broadcast has found the channel of the first waiter full and has put its
\* value in the channel of the second.
BroadcastDroppedForOne ==
    /\ ret.op = "Broadcast"
    /\ Len(waiters) = 2
    /\ waiters[1] # <<[Source |-> ret.val]>>
    /\ waiters[2] = <<[Source |-> ret.val]>>

\* ------------------------------------------------------------ the packer loop

\* thor.BlockInterval (10 seconds in production), scaled down.
BlockInterval == 2

\* thor.CommitteeSize, scaled down.
CommitteeSize == 2

\* The endorsements the communicator may deliver to the packer loop.
Endorsements == {"e1", "e2", "e3"}

\* Latest second the clock reaches, highest best block and most flows scheduled.
MaxNow == 5
MaxBest == 2
MaxFlows == 3

\* What the packer loop leaves alone.
besidesNode == <<blocks, finality, mbpParam, finalized, data, caches, casts,
                 disturbed, tally, waiters, sig, cons, adopt, solo, opt>>

\* The packer loop's flow variable holding nil.
NoFlow == [id |-> 0]

\* packer.Schedule: a flow on top of the best block, due at when.
Schedule(id, best, when) ==
    [id |-> id, parent |-> best, when |-> when, bs |-> FALSE, eds |-> {}]

\* The packer loop after synchronisation: no flow yet.
NewPackerLoop ==
    [flow |-> NoFlow, best |-> 0, now |-> 0, flows |-> 0, packed |-> <<>>,
     attempts |-> <<>>]

\* case <-ticker.C of the packer loop.  when and schedOK are the outcome of
\* packer.Schedule, bsOK the outcome of packTxSetAndBlockSummary.
PackerTick(when, schedOK, bsOK) ==
    /\ node # NoNode
    /\ node.flow = NoFlow => node.flows < MaxFlows
    /\ IF node.flow = NoFlow /\ ~schedOK
       THEN /\ node' = node
            /\ ret' = Ret("Tick", NoID, "none", "schedule", nil)
       ELSE \E f \in {IF node.flow = NoFlow
                      THEN Schedule(node.flows + 1, node.best, when)
                      ELSE node.flow} :
            \E n1 \in {IF node.flow = NoFlow
                       THEN [node EXCEPT !.flows = @ + 1] ELSE node} :
               IF f.parent # n1.best
               THEN /\ node' = [n1 EXCEPT !.flow = NoFlow]
                    /\ ret' = Ret("Tick", NoID, "none", nil, "newBest")
               ELSE IF n1.now < f.when
               THEN /\ node' = [n1 EXCEPT !.flow = f]
                    /\ ret' = Ret("Tick", NoID, "none", nil, "wait")
               ELSE IF n1.now > f.when + BlockInterval
               THEN /\ node' = [n1 EXCEPT !.flow = NoFlow]
                    /\ ret' = Ret("Tick", NoID, "none", nil, "timeout")
               ELSE IF f.bs
               THEN /\ node' = [n1 EXCEPT !.flow = f]
                    /\ ret' = Ret("Tick", NoID, "none", nil, "summaryPacked")
               ELSE IF ~bsOK
               THEN /\ node' = [n1 EXCEPT !.flow = NoFlow]
                    /\ ret' = Ret("Tick", NoID, "none", "packSummary", nil)
               ELSE /\ node' = [n1 EXCEPT !.flow = [f EXCEPT !.bs = TRUE]]
                    /\ ret' = Ret("Tick", NoID, "none", nil, "summary")
    /\ UNCHANGED besidesNode

\* case ev := <-newEndorsementCh of the packer loop, with the flow kept after
\* a successful Pack.
PackerEndorsementKeepsFlow(ed, valid, packOK, commit) ==
    /\ node # NoNode
    /\ commit = "trunk" => node.best < MaxBest
    /\ \E f \in {node.flow} :
       IF f = NoFlow
       THEN /\ node' = node
            /\ ret' = Ret("Endorsement", NoID, "none", nil, "ignored")
       ELSE IF ~f.bs
       THEN /\ node' = node
            /\ ret' = Ret("Endorsement", NoID, "none", nil, "ignored")
       ELSE IF f.parent # node.best
       THEN /\ node' = [node EXCEPT !.flow = NoFlow]
            /\ ret' = Ret("Endorsement", NoID, "none", nil, "newBest")
       ELSE IF node.now > f.when + BlockInterval
       THEN /\ node' = [node EXCEPT !.flow = NoFlow]
            /\ ret' = Ret("Endorsement", NoID, "none", nil, "timeout")
       ELSE IF ~valid
       THEN /\ node' = node
            /\ ret' = Ret("Endorsement", NoID, "none", "invalid", nil)
       ELSE \E f1 \in {[f EXCEPT !.eds = @ \cup {ed}]} :
            IF Cardinality(f1.eds) < CommitteeSize
            THEN /\ node' = [node EXCEPT !.flow = f1]
                 /\ ret' = Ret("Endorsement", NoID, "none", nil, "added")
            ELSE IF ~packOK
            THEN /\ node' = [node EXCEPT !.flow = NoFlow,
                                         !.attempts = Append(@, f.id)]
                 /\ ret' = Ret("Endorsement", NoID, "none", "pack", nil)
            ELSE /\ node' = [node EXCEPT
                        !.flow = f1,
                        !.attempts = Append(@, f.id),
                        !.packed = Append(@, [flow |-> f.id,
                                              eds |-> Cardinality(f1.eds)]),
                        !.best = IF commit = "trunk" THEN @ + 1 ELSE @]
                 /\ ret' = Ret("Endorsement", NoID, "none",
                               IF commit \in {"state", "block"} THEN commit ELSE nil,
                               "packed")
    /\ UNCHANGED besidesNode

\* case ev := <-newEndorsementCh of the packer loop.  valid is the outcome of
\* ValidateEndorsement, packOK that of flow.Pack; commit tells whether
\* stage.Commit failed ("state"), commitBlock failed ("block"), or the block
\* went on a side branch ("side") or became the best block ("trunk").
PackerEndorsement(ed, valid, packOK, commit) ==
    /\ node # NoNode
    /\ commit = "trunk" => node.best < MaxBest
    /\ \E f \in {node.flow} :
       IF f = NoFlow
       THEN /\ node' = node
            /\ ret' = Ret("Endorsement", NoID, "none", nil, "ignored")
       ELSE IF ~f.bs
       THEN /\ node' = node
            /\ ret' = Ret("Endorsement", NoID, "none", nil, "ignored")
       ELSE IF f.parent # node.best
       THEN /\ node' = [node EXCEPT !.flow = NoFlow]
            /\ ret' = Ret("Endorsement", NoID, "none", nil, "newBest")
       ELSE IF node.now > f.when + BlockInterval
       THEN /\ node' = [node EXCEPT !.flow = NoFlow]
            /\ ret' = Ret("Endorsement", NoID, "none", nil, "timeout")
       ELSE IF ~valid
       THEN /\ node' = node
            /\ ret' = Ret("Endorsement", NoID, "none", "invalid", nil)
       ELSE \E f1 \in {[f EXCEPT !.eds = @ \cup {ed}]} :
            IF Cardinality(f1.eds) < CommitteeSize
            THEN /\ node' = [node EXCEPT !.flow = f1]
                 /\ ret' = Ret("Endorsement", NoID, "none", nil, "added")
            ELSE IF ~packOK
            THEN /\ node' = [node EXCEPT !.flow = NoFlow,
                                         !.attempts = Append(@, f.id)]
                 /\ ret' = Ret("Endorsement", NoID, "none", "pack", nil)
            ELSE /\ node' = [node EXCEPT
                        !.flow = NoFlow,
                        !.attempts = Append(@, f.id),
                        !.packed = Append(@, [flow |-> f.id,
                                              eds |-> Cardinality(f1.eds)]),
                        !.best = IF commit = "trunk" THEN @ + 1 ELSE @]
                 /\ ret' = Ret("Endorsement", NoID, "none",
                               IF commit \in {"state", "block"} THEN commit ELSE nil,
                               "packed")
    /\ UNCHANGED besidesNode

\* A second passes.
PackerClock ==
    /\ node # NoNode
    /\ node.now < MaxNow
    /\ node' = [node EXCEPT !.now = @ + 1]
    /\ ret' = Ret("Clock", NoID, "none", nil, nil)
    /\ UNCHANGED besidesNode

\* A block received from the network becomes the best block.
PackerNewBest ==
    /\ node # NoNode
    /\ node.best < MaxBest
    /\ node' = [node EXCEPT !.best = @ + 1]
    /\ ret' = Ret("NewBest", NoID, "none", nil, nil)
    /\ UNCHANGED besidesNode

InitPacker ==
    /\ InitEngine
    /\ tally = NoTally
    /\ waiters = <<>>
    /\ sig = ZeroSignal
    /\ cons = NoConsensus
    /\ node = NewPackerLoop
    /\ adopt = NoAdoption
    /\ solo = NoSolo
    /\ opt = NoOptimizer

NextPacker ==
    \/ \E when \in node.now..(node.now + 1), schedOK \in BOOLEAN, bsOK \in BOOLEAN :
          PackerTick(when, schedOK, bsOK)
    \/ \E ed \in Endorsements, valid \in BOOLEAN, packOK \in BOOLEAN,
          commit \in {"state", "block", "side", "trunk"} :
          PackerEndorsement(ed, valid, packOK, commit)
    \/ PackerClock
    \/ PackerNewBest

SpecPacker == InitPacker /\ [][NextPacker]_vars

\* The flow's parent is no longer the best block, or its deadline has passed.
Stale(n) ==
    /\ n.flow # NoFlow
    /\ \/ n.flow.parent # n.best
       \/ n.now > n.flow.when + BlockInterval

\* A block is packed only from a flow that has packed its summary, whose
\* parent is the best block, within the deadline and with a full committee.
PackedOnlyWhenReady ==
    Len(node'.packed) > Len(node.packed) =>
        /\ node.flow # NoFlow
        /\ node.flow.bs
        /\ node.flow.parent = node.best
        /\ node.now <= node.flow.when + BlockInterval
        /\ node'.packed[Len(node'.packed)].eds >= CommitteeSize

\* Every pack attempt, successful or not, leaves the loop without a flow.
ResetAfterPack ==
    Len(node'.attempts) > Len(node.attempts) => node'.flow = NoFlow

\* No flow is handed to Pack twice.
OnePackPerFlow ==
    \A i, j \in 1..Len(node.attempts) :
        node.attempts[i] = node.attempts[j] => i = j

\* C37 (as the code has it): a block is packed only when a flow exists that
\* has packed its block summary, its parent is still the best block, the time
\* is at most flow.When() + BlockInterval and at least CommitteeSize
\* endorsements have been added; a stale flow is discarded on the next tick,
\* and on the next endorsement event once it has packed its block summary;
\* the flow is reset after any pack attempt, so no flow is packed twice.
PackerPacksOncePerReadyFlow ==
    /\ []OnePackPerFlow
    /\ [][/\ PackedOnlyWhenReady
          /\ ResetAfterPack
          /\ (ret'.op = "Tick" /\ Stale(node)) => node'.flow = NoFlow
          /\ (ret'.op = "Endorsement" /\ Stale(node) /\ node.flow.bs)
                => node'.flow = NoFlow]_vars

\* C37 as stated: a stale flow is discarded on the next tick or endorsement
\* event, whichever comes.
StaleFlowDiscardedOnNextEvent ==
    [][(ret'.op \in {"Tick", "Endorsement"} /\ Stale(node))
          => node'.flow = NoFlow]_vars

\* A block has been packed, and an earlier flow was discarded as stale.
PackedAfterDiscard ==
    /\ node # NoNode
    /\ Len(node.packed) > 0
    /\ node.packed[1].flow > 1

\* ------------------------------------------- packTxSetAndBlockSummary

\* Gas of the smallest transaction (thor.TxGas) and the block's gas limit, scaled down.
TxGas == 1
GasLimit == 3

\* Most executables the pool hands to one run.
MaxTxs == 3

\* What a run of packTxSetAndBlockSummary leaves alone.
besidesAdopt == <<blocks, finality, mbpParam, finalized, data, caches, casts,
                  disturbed, ret, tally, waiters, sig, cons, node, solo, opt>>

RECURSIVE SeqsUpTo(_, _)
\* The sequences over s of length at most n.
SeqsUpTo(s, n) ==
    IF n = 0 THEN {<<>>}
    ELSE SeqsUpTo(s, n - 1) \cup
         {Append(q, x) : q \in {t \in SeqsUpTo(s, n - 1) : Len(t) = n - 1}, x \in s}

\* packer.Flow.Adopt of a transaction of the given gas: the gas limit is
\* reached when not even the smallest transaction fits, and a transaction
\* that does not fit now may fit a later block; fits is the outcome of every
\* other check of the transaction.
Adopt(gasUsed, gas, fits) ==
    IF gasUsed + gas > GasLimit
    THEN IF gasUsed + TxGas > GasLimit THEN "gasLimitReached" ELSE "notAdoptableNow"
    ELSE fits

\* The run after line 268: the timer goroutine sleeps, the loop is before the
\* first executable.
StartAdoption(txs) ==
    [txs |-> txs, i |-> 1, timer |-> "sleeping", gasUsed |-> 0, adopted |-> {},
     toRemove |-> <<>>, reached |-> FALSE, pc |-> "loop"]

\* The timer goroutine's Sleep returns: it now waits in done <- struct{}{}.
TimerFires ==
    /\ adopt # NoAdoption
    /\ adopt.timer = "sleeping"
    /\ adopt' = [adopt EXCEPT !.timer = "sending"]
    /\ UNCHANGED besidesAdopt

\* One iteration of the loop over the executables: the select on done, whose
\* break leaves the select only, then flow.Adopt and the switch on its error,
\* whose break leaves the switch only.
AdoptIteration(fits) ==
    /\ adopt # NoAdoption
    /\ adopt.pc = "loop"
    /\ adopt.i <= Len(adopt.txs)
    /\ \E err \in {Adopt(adopt.gasUsed, adopt.txs[adopt.i], fits)} :
       adopt' = [adopt EXCEPT
           !.timer = IF @ = "sending" THEN "received" ELSE @,
           !.i = @ + 1,
           !.reached = @ \/ err = "gasLimitReached",
           !.gasUsed = IF err = "nil" THEN @ + adopt.txs[adopt.i] ELSE @,
           !.adopted = IF err = "nil" THEN @ \cup {adopt.i} ELSE @,
           !.toRemove = IF err \in {"nil", "badTx"}
                        THEN Append(@, adopt.i) ELSE @]
    /\ UNCHANGED besidesAdopt

\* After the loop: flow.PackTxSetAndBlockSummary and the return.
PackSummary(ok) ==
    /\ adopt # NoAdoption
    /\ adopt.pc = "loop"
    /\ adopt.i > Len(adopt.txs)
    /\ adopt' = [adopt EXCEPT !.pc = IF ok THEN "returned" ELSE "failed"]
    /\ UNCHANGED besidesAdopt

InitAdopt ==
    /\ InitEngine
    /\ tally = NoTally
    /\ waiters = <<>>
    /\ sig = ZeroSignal
    /\ cons = NoConsensus
    /\ node = NoNode
    /\ adopt \in {StartAdoption(txs) : txs \in SeqsUpTo({1, 2}, MaxTxs)}
    /\ solo = NoSolo
    /\ opt = NoOptimizer

NextAdopt ==
    \/ TimerFires
    \/ \E fits \in {"nil", "notAdoptableNow", "badTx"} : AdoptIteration(fits)
    \/ \E ok \in BOOLEAN : PackSummary(ok)

SpecAdopt == InitAdopt /\ [][NextAdopt]_vars

\* C38: once the timer goroutine's done signal has been received, and
\* likewise once the flow has reported the gas limit reached, no further
\* transaction is adopted into the flow.
NoAdoptionAfterDone ==
    [][(adopt.timer = "received" \/ adopt.reached)
          => adopt'.adopted = adopt.adopted]_vars

\* ------------------------------------------------------------ the Solo loop

\* The endorse goroutines of one tick: thor.CommitteeSize*2 of them.
Endorsers == 1..(2 * CommitteeSize)

\* What the Solo loop leaves alone.
besidesSolo == <<blocks, finality, mbpParam, finalized, data, caches, casts,
                 disturbed, ret, tally, waiters, sig, cons, node, adopt, opt>>

\* An endorse goroutine that has not yet found a committee proof, one that
\* has returned, and one waiting in its select with the endorsement ed.
Proving == [at |-> "proving", ed |-> "nil"]
Returned == [at |-> "returned", ed |-> "nil"]
Selecting(ed) == [at |-> "select", ed |-> ed]

\* Solo.loop waiting for its ticker.
NewSolo ==
    [pc |-> "ticker", i |-> 0, eds |-> {}, edCh |-> <<>>,
     gs |-> [g \in Endorsers |-> Returned]]

\* case <-ticker.C up to the start of the collection: the summary is packed,
\* done and edCh are made and the endorse goroutines are started.
SoloTick ==
    /\ solo # NoSolo
    /\ solo.pc = "ticker"
    /\ solo' = [pc |-> "collect", i |-> 0, eds |-> {}, edCh |-> <<>>,
                gs |-> [g \in Endorsers |-> Proving]]
    /\ UNCHANGED besidesSolo

\* Solo.endorse up to its select: the goroutine finds a committee proof and
\* signs the endorsement ed, or (found false) runs out of key pairs and returns.
EndorseProve(g, found, ed) ==
    /\ solo # NoSolo
    /\ solo.gs[g] = Proving
    /\ solo' = [solo EXCEPT !.gs[g] = IF found THEN Selecting(ed) ELSE Returned]
    /\ UNCHANGED besidesSolo

\* case edCh <- ed of Solo.endorse: edCh has room for CommitteeSize values.
EndorseSend(g) ==
    /\ solo # NoSolo
    /\ solo.gs[g].at = "select"
    /\ Len(solo.edCh) < CommitteeSize
    /\ solo' = [solo EXCEPT !.edCh = Append(@, solo.gs[g].ed), !.gs[g] = Returned]
    /\ UNCHANGED besidesSolo

\* case <-done of Solo.endorse, meeting the loop's done <- struct{}{} and the
\* break after it: done has no buffer.
EndorseDone(g) ==
    /\ solo # NoSolo
    /\ solo.gs[g].at = "select"
    /\ solo.pc = "sendDone"
    /\ solo' = [solo EXCEPT !.gs[g] = Returned, !.pc = "packHeader"]
    /\ UNCHANGED besidesSolo

\* The head of the collection loop: the loop's condition and the test of
\* eds.Len(), up to the statement that may block.
SoloCollect ==
    /\ solo # NoSolo
    /\ solo.pc = "collect"
    /\ solo' = [solo EXCEPT !.pc =
           IF solo.i >= 2 * CommitteeSize THEN "packHeader"
           ELSE IF Cardinality(solo.eds) >= CommitteeSize THEN "sendDone"
           ELSE "receive"]
    /\ UNCHANGED besidesSolo

\* case ed := <-edCh of the collection loop and eds.Add(ed), which rejects
\* an endorsement it already holds.
SoloReceive ==
    /\ solo # NoSolo
    /\ solo.pc = "receive"
    /\ Len(solo.edCh) > 0
    /\ solo' = [solo EXCEPT !.eds = @ \cup {Head(solo.edCh)},
                            !.edCh = Tail(@),
                            !.i = @ + 1,
                            !.pc = "collect"]
    /\ UNCHANGED besidesSolo

\* The rest of the tick: PackHeader, commit and display.
SoloCommit ==
    /\ solo # NoSolo
    /\ solo.pc = "packHeader"
    /\ solo' = [solo EXCEPT !.pc = "ticker"]
    /\ UNCHANGED besidesSolo

InitSolo ==
    /\ InitEngine
    /\ tally = NoTally
    /\ waiters = <<>>
    /\ sig = ZeroSignal
    /\ cons = NoConsensus
    /\ node = NoNode
    /\ adopt = NoAdoption
    /\ solo = NewSolo
    /\ opt = NoOptimizer

\* The steps of the loop's own goroutine.
SoloMain ==
    \/ SoloTick
    \/ SoloCollect
    \/ SoloReceive
    \/ SoloCommit

\* The steps of the endorse goroutine g.
SoloEndorse(g) ==
    \/ \E found \in BOOLEAN, ed \in Endorsements : EndorseProve(g, found, ed)
    \/ EndorseSend(g)
    \/ EndorseDone(g)

NextSolo ==
    \/ SoloMain
    \/ \E g \in Endorsers : SoloEndorse(g)

SpecSolo == InitSolo /\ [][NextSolo]_vars

\* The Go scheduler runs every goroutine that can take a step.
SpecSoloFair ==
    /\ SpecSolo
    /\ WF_vars(SoloMain)
    /\ \A g \in Endorsers : WF_vars(SoloEndorse(g))

\* C39: each tick iteration of the Solo loop terminates: the endorsement
\* collection and the send on done never block forever, whatever the endorse
\* goroutines do.
SoloTickTerminates ==
    (solo.pc # "ticker") ~> (solo.pc = "ticker")

\* ------------------------------------------------------------ the optimizer

\* minSpan and maxSpan (1800 and 18000 blocks), scaled down.
minSpan == 1
maxSpan == 4

\* thor.MaxStateHistory, scaled down.
MaxStateHistory == 2

\* muxdb.TrieDedupedNodePartitionFactor, scaled down.
TrieDedupedNodePartitionFactor == 2

\* Highest block number the optimizer is run up to.  Block numbers are uint32
\* and stay far below 2^32, so that no sum or product below wraps.
MaxTarget == 9

\* What the optimizer leaves alone.
besidesOpt == <<blocks, finality, mbpParam, finalized, data, caches, casts,
                disturbed, ret, tally, waiters, sig, cons, node, adopt, solo>>

\* PartitionFactor.Which: the id of the partition holding block number num.
Which(num) == num \div TrieDedupedNodePartitionFactor

\* PartitionFactor.Range: the first and the last block number of partition pid.
Range(pid) ==
    <<pid * TrieDedupedNodePartitionFactor,
      (pid + 1) * TrieDedupedNodePartitionFactor - 1>>

\* Optimizer.loop after status.Load on a fresh database.
NewOptimizer ==
    [pc |-> "select", status |-> [Base |-> 0, AccountBase |-> 0], target |-> 0,
     trie |-> "nil", begin |-> 0, base |-> 0, goal |-> 0, calls |-> <<>>,
     err |-> "nil"]

\* alignToPartition(base, goal, cb) is entered for the tries named by trie.
Align(o, trie, base, goal) ==
    [o EXCEPT !.pc = "align", !.trie = trie, !.begin = base, !.base = base,
              !.goal = goal, !.calls = <<>>, !.err = "nil"]

\* The head of an iteration of Optimizer.loop: the target is the best block
\* number kept within minSpan..maxSpan of status.Base; waitUntilSteady waits
\* for it or fails (steady false); then the storage tries are aligned.
SelectTarget(best, steady) ==
    /\ opt # NoOptimizer
    /\ opt.pc = "select"
    /\ \E target \in {IF best < opt.status.Base + minSpan
                      THEN opt.status.Base + minSpan
                      ELSE IF best > opt.status.Base + maxSpan
                      THEN opt.status.Base + maxSpan
                      ELSE best} :
          /\ target <= MaxTarget
          /\ opt' = IF steady
                    THEN Align([opt EXCEPT !.target = target], "storage",
                               opt.status.Base, target)
                    ELSE [opt EXCEPT !.target = target, !.pc = "stopped",
                                     !.err = "steady"]
    /\ UNCHANGED besidesOpt

\* One iteration of alignToPartition's loop, with the next base put at the
\* limit itself.
AlignStepFromLimit(cbOK) ==
    /\ opt # NoOptimizer
    /\ opt.pc = "align"
    /\ \E pid \in {Which(opt.base)} :
       \E limit \in {IF Range(pid)[2] > opt.goal THEN opt.goal ELSE Range(pid)[2]} :
          opt' = [opt EXCEPT
              !.calls = Append(@, <<opt.base, limit>>),
              !.pc = IF ~cbOK THEN "stopped"
                     ELSE IF opt.goal = limit THEN "aligned" ELSE "align",
              !.err = IF ~cbOK THEN "cb" ELSE @,
              !.base = IF cbOK /\ opt.goal # limit THEN limit ELSE @]
    /\ UNCHANGED besidesOpt

\* One iteration of alignToPartition's loop: the limit of base's partition,
\* cut at the target, the callback, whose outcome is cbOK, and the return or
\* the next base.
AlignStep(cbOK) ==
    /\ opt # NoOptimizer
    /\ opt.pc = "align"
    /\ \E pid \in {Which(opt.base)} :
       \E limit \in {IF Range(pid)[2] > opt.goal THEN opt.goal ELSE Range(pid)[2]} :
          opt' = [opt EXCEPT
              !.calls = Append(@, <<opt.base, limit>>),
              !.pc = IF ~cbOK THEN "stopped"
                     ELSE IF opt.goal = limit THEN "aligned" ELSE "align",
              !.err = IF ~cbOK THEN "cb" ELSE @,
              !.base = IF cbOK /\ opt.goal # limit THEN limit + 1 ELSE @]
    /\ UNCHANGED besidesOpt

\* Optimizer.loop after a call of alignToPartition returned nil: after the
\* storage tries the account trie is aligned when the target is beyond
\* MaxStateHistory; then the status is advanced and saved (saved false: Save
\* fails).
AfterAlign(saved) ==
    /\ opt # NoOptimizer
    /\ opt.pc = "aligned"
    /\ opt' = IF opt.trie = "storage" /\ opt.target > MaxStateHistory
              THEN Align(opt, "account", opt.status.AccountBase,
                         opt.target - MaxStateHistory)
              ELSE [opt EXCEPT
                      !.status.AccountBase =
                          IF opt.trie = "account" THEN opt.goal + 1 ELSE @,
                      !.status.Base = opt.target + 1,
                      !.pc = IF saved THEN "select" ELSE "stopped",
                      !.err = IF saved THEN @ ELSE "save"]
    /\ UNCHANGED besidesOpt

InitOptimizer ==
    /\ InitEngine
    /\ tally = NoTally
    /\ waiters = <<>>
    /\ sig = ZeroSignal
    /\ cons = NoConsensus
    /\ node = NoNode
    /\ adopt = NoAdoption
    /\ solo = NoSolo
    /\ opt = NewOptimizer

NextOptimizer ==
    \/ \E best \in 0..MaxTarget, steady \in BOOLEAN : SelectTarget(best, steady)
    \/ \E cbOK \in BOOLEAN : AlignStep(cbOK)
    \/ \E saved \in BOOLEAN : AfterAlign(saved)

SpecOptimizer == InitOptimizer /\ [][NextOptimizer]_vars

\* The ranges handed to cb so far start at the base, follow one another
\* without gap or overlap, and each lies in one partition and up to the goal.
ConsecutiveRanges(o) ==
    /\ \A k \in 1..Len(o.calls) :
          /\ o.calls[k][1] <= o.calls[k][2]
          /\ Which(o.calls[k][1]) = Which(o.calls[k][2])
          /\ o.calls[k][2] <= o.goal
          /\ o.calls[k][1] = IF k = 1 THEN o.begin ELSE o.calls[k - 1][2] + 1
    /\ o.begin <= o.goal

\* C40: alignToPartition(base, target, cb) with base <= target invokes cb on
\* consecutive ranges that start at base, each within one partition, without
\* gap or overlap; it returns nil right after the range ending at target, and
\* returns the error of the first failing cb without calling cb again.
AlignCoversRangeOnce ==
    opt.pc \in {"align", "aligned"} \/ opt.err = "cb" =>
        /\ ConsecutiveRanges(opt)
        /\ opt.pc = "aligned" =>
              /\ Len(opt.calls) > 0
              /\ opt.calls[Len(opt.calls)][2] = opt.goal
        /\ opt.pc = "align" =>
              \A k \in 1..Len(opt.calls) : opt.calls[k][2] < opt.goal
        /\ opt.err = "cb" =>
              /\ opt.pc = "stopped"
              /\ Len(opt.calls) > 0
              /\ ~ENABLED (\E cbOK \in BOOLEAN : AlignStep(cbOK))

\* An alignment over three partitions has returned nil.
AlignedAcrossPartitions ==
    /\ opt # NoOptimizer
    /\ opt.pc = "aligned"
    /\ Len(opt.calls) >= 3
    /\ opt.calls[1][1] < opt.calls[1][2]

====
